---------------------------- MODULE Spec2Model ----------------------------
(***************************************************************************)
(* A model of the guess calculator framework (src/binaries): the restricted *)
(* PCFG, its terminal groups (seen and unseen), the mixed-radix pattern     *)
(* counter, the pattern manager (compaction, permutation rank), pattern and *)
(* string enumeration, and reverse lookup.                                  *)
(*                                                                          *)
(* Conventions.  A string is a sequence of byte values (ASCII codes).       *)
(* Sequences are 1-based where the source is 0-based: position i of the     *)
(* source is position i+1 here; indices that the program reports (terminal  *)
(* indices, group indices, ranks, digits) keep their 0-based values.        *)
(* A double is modelled as an exact rational <<n, d>> with d > 0; the       *)
(* source compares and multiplies doubles, the model compares and           *)
(* multiplies the rationals, so rounding is not modelled.  mpz_t values are *)
(* unbounded integers.                                                      *)
(***************************************************************************)
EXTENDS Integers, Sequences, FiniteSets, TLC

VARIABLES
  pcfg,             \* PCFG::structures_ : the loaded structures, in file order
  cutoff,           \* the probability cutoff given to generatePatterns/Strings
  structure_index,  \* loop variable i of the PCFG-level loops
  pattern_manager,  \* the PatternManager of the running enumeration or call
  patterns_left,    \* Structure::generatePatterns / generateStrings loop flag
  output,           \* the lines written to stdout, in order
  iterators,        \* the string iterators opened for the current pattern
  inputstring,      \* the argument of PCFG::lookup / lookupSum
  lookup_data,      \* the current best LookupData of PCFG::lookup
  canParse,         \* PCFG::lookup: is the current best parseable?
  total_probability,\* PCFG::lookupSum accumulator
  structure_lookups,\* the per-structure LookupData seen so far (history)
  group,            \* the terminal group under test
  uiter,            \* a TerminalGroupStringIterator of the group
  yielded,          \* getCurrentString() after the constructor / restart and
                    \* after every increment() that returned true, in order
  more,             \* the value the last increment() returned
  number,           \* the MixedRadixNumber under test
  visited,          \* the digits it has held since clear(), in order
  lookupFile,       \* the lookup table file: its lines and file position
  search,           \* locals of BinarySearchLookupTable / TableLookup
  accurate_probabilities,  \* the flag given to PCFG::generateStrings
  collection,       \* NonterminalCollection::nonterminal_collection_
  allocated,        \* the Nonterminal objects created with new, in order
  generator,        \* the random engine of PCFG::generateRandomStrings
  result,           \* the call last applied: its arguments and return value
  pc                \* position of the running operation

genVars == <<pcfg, cutoff, structure_index, pattern_manager, patterns_left,
             output, iterators>>
lookupVars == <<inputstring, lookup_data, canParse, total_probability,
                structure_lookups>>
unseenVars == <<group, uiter, yielded, more>>
numberVars == <<number, visited>>
tableVars == <<lookupFile, search>>
collectionVars == <<collection, allocated>>
randomVars == <<generator>>
vars == <<genVars, lookupVars, unseenVars, numberVars, tableVars,
          accurate_probabilities, collectionVars, randomVars, result, pc>>

\* The value of the variables an operation under check does not use
Unused == "unused"
GenVarsUnused ==
  /\ pcfg = Unused /\ cutoff = Unused /\ structure_index = Unused
  /\ pattern_manager = Unused /\ patterns_left = Unused /\ output = Unused
  /\ iterators = Unused
LookupVarsUnused ==
  /\ inputstring = Unused /\ lookup_data = Unused /\ canParse = Unused
  /\ total_probability = Unused /\ structure_lookups = Unused
UnseenVarsUnused ==
  /\ group = Unused /\ uiter = Unused /\ yielded = Unused /\ more = Unused
NumberVarsUnused == number = Unused /\ visited = Unused
TableVarsUnused == lookupFile = Unused /\ search = Unused
CollectionVarsUnused == collection = Unused /\ allocated = Unused
RandomVarsUnused == generator = Unused

(***************************************************************************)
(* Bounds of the model.                                                     *)
(***************************************************************************)
\* longest structure (number of nonterminals) drawn for pattern enumeration
MaxNonterminals == 3
\* The unseen-terminal search region.  The source constant is 0x40000000
\* (unseen_terminal_group.h:95); the algorithms are parametric in it and the
\* model uses a small region so that masks of one or two characters span
\* several regions.
kTerminalSearchRegionSize == 7

(***************************************************************************)
(* Characters and strings                                                   *)
(***************************************************************************)
\* 'L', 'U', 'D', 'S' and the structure break 'E' of representations
ChL == 76
ChU == 85
ChD == 68
ChS == 83
kStructureBreakChar == 69

IsLower(c) == c >= 97 /\ c <= 122
IsUpper(c) == c >= 65 /\ c <= 90
IsDigit(c) == c >= 48 /\ c <= 57

toupper(c) == IF IsLower(c) THEN c - 32 ELSE c
tolower(c) == IF IsUpper(c) THEN c + 32 ELSE c

\* "`~!@#$%^&*()-_=+[{]}\|;:'\",<.>/? "
kGeneratorSymbols ==
  <<96, 126, 33, 64, 35, 36, 37, 94, 38, 42, 40, 41, 45, 95, 61, 43, 91, 123,
    93, 125, 92, 124, 59, 58, 39, 34, 44, 60, 46, 62, 47, 63, 32>>

\* l_char_to_int_, d_char_to_int_, s_char_to_int_ : -1 when not in the class
l_char_to_int_(c) == IF IsLower(c) THEN c - 97 ELSE -1
d_char_to_int_(c) == IF IsDigit(c) THEN c - 48 ELSE -1
s_char_to_int_(c) ==
  IF \E i \in 1..Len(kGeneratorSymbols) : kGeneratorSymbols[i] = c
  THEN (CHOOSE i \in 1..Len(kGeneratorSymbols) : kGeneratorSymbols[i] = c) - 1
  ELSE -1
l_int_to_char_(v) == 97 + v
d_int_to_char_(v) == 48 + v

\* TerminalGroup::matchOutRepresentation
matchOutRepresentation(out_representation, terminal) ==
  [i \in 1..Len(terminal) |->
     IF out_representation[i] = ChU THEN toupper(terminal[i]) ELSE terminal[i]]

\* std::transform(..., ::tolower)
Downcase(s) == [i \in 1..Len(s) |-> tolower(s[i])]

\* StripBreakCharacterFromTerminal that copies every byte
StripBreakCharacterFromTerminal_KeepAll(s) == s

\* grammartools::StripBreakCharacterFromTerminal
StripBreakCharacterFromTerminal(s) == SelectSeq(s, LAMBDA c : c # 1)

\* The USLD class of one input byte (Structure::
\* convertStringToStructureRepresentation, also Nonterminal::lookup)
ClassOf(c) ==
  IF IsLower(c) THEN ChL
  ELSE IF IsUpper(c) THEN ChU
  ELSE IF IsDigit(c) THEN ChD
  ELSE IF c = 1 THEN kStructureBreakChar
  ELSE ChS

convertStringToStructureRepresentation(s) == [i \in 1..Len(s) |-> ClassOf(s[i])]

\* getline(stream, token, delim) repeated until the stream is exhausted
RECURSIVE SplitOn(_, _)
SplitOn(s, delim) ==
  IF s = <<>> THEN <<>>
  ELSE IF \E i \in 1..Len(s) : s[i] = delim
       THEN LET i == CHOOSE k \in 1..Len(s) :
                       s[k] = delim /\ \A m \in 1..(k-1) : s[m] # delim
            IN <<SubSeq(s, 1, i - 1)>> \o SplitOn(SubSeq(s, i + 1, Len(s)), delim)
       ELSE <<s>>

\* The element of a singleton set.  Only({e(x) : x \in {v}}) is e(v) with v
\* evaluated once, where LET x == v IN e(x) evaluates v at every use of x
Only(S) == CHOOSE x \in S : TRUE

RECURSIVE Concat(_)
Concat(ss) == IF ss = <<>> THEN <<>> ELSE Head(ss) \o Concat(Tail(ss))

RECURSIVE JoinWith(_, _)
JoinWith(ss, sep) ==
  IF ss = <<>> THEN <<>>
  ELSE IF Len(ss) = 1 THEN ss[1]
  ELSE ss[1] \o <<sep>> \o JoinWith(Tail(ss), sep)

(***************************************************************************)
(* Probabilities (doubles as exact rationals)                               *)
(***************************************************************************)
RECURSIVE GCD(_, _)
GCD(a, b) == IF b = 0 THEN a ELSE GCD(b, a % b)
Reduced(n, d) ==
  IF n = 0 \/ d = 0 THEN <<n, d>>
  ELSE LET g == GCD(IF n < 0 THEN -n ELSE n, d) IN <<n \div g, d \div g>>
PMul(a, b) == Reduced(a[1] * b[1], a[2] * b[2])
PAdd(a, b) ==
  LET g == GCD(a[2], b[2])
  IN Reduced(a[1] * (b[2] \div g) + b[1] * (a[2] \div g), a[2] * (b[2] \div g))
PDivInt(a, k) == Reduced(a[1], a[2] * k)
PLess(a, b) ==
  LET g == GCD(a[2], b[2]) IN a[1] * (b[2] \div g) < b[1] * (a[2] \div g)
PEq(a, b) == ~PLess(a, b) /\ ~PLess(b, a)
PLeq(a, b) == ~PLess(b, a)

RECURSIVE ProdSeq(_)
ProdSeq(s) == IF s = <<>> THEN 1 ELSE Head(s) * ProdSeq(Tail(s))

RECURSIVE SumSeq(_)
SumSeq(s) == IF s = <<>> THEN 0 ELSE Head(s) + SumSeq(Tail(s))


(***************************************************************************)
(* Parse statuses (lookup_data.h) and LookupData                            *)
(***************************************************************************)
kCanParse == 1
kBeyondCutoff == 2
kStructureNotFound == 4
kTerminalNotFound == 8
kTerminalCollision == 16
kTerminalCantBeGenerated == 32
kUnexpectedFailure == 64

\* parse_status & kCanParse, parse_status & kUnexpectedFailure
HasCanParse(status) == status % 2 = 1
HasUnexpectedFailure(status) == (status \div 64) % 2 = 1

\* The double -1 stored in the probability of a failed lookup
MinusOne == <<-1, 1>>

\* A LookupData / TerminalLookupData value.  source_ids are not modelled.
LookupData(status, probability, index, first_string, group_index) ==
  [parse_status |-> status, probability |-> probability, index |-> index,
   first_string_of_pattern |-> first_string,
   terminal_group_index |-> group_index]

\* The failed LookupData every lookup routine builds: probability -1,
\* index -1, first_string_of_pattern default-constructed
FailedLookup(status) == LookupData(status, MinusOne, -1, <<>>, 0)

(***************************************************************************)
(* Terminal data files.  A file is a sequence of lines; a line is blank or  *)
(* holds terminal <TAB> probability <TAB> source_ids.  Byte positions and   *)
(* byte counts of the source are line positions and line counts here.       *)
(***************************************************************************)
Line(t, p, s) ==
  [blank |-> FALSE, terminal |-> t, probability |-> p, source_ids |-> s]
BlankLine ==
  [blank |-> TRUE, terminal |-> <<>>, probability |-> <<0, 1>>,
   source_ids |-> <<>>]

(***************************************************************************)
(* UnseenTerminalGroup: the generator mask                                  *)
(***************************************************************************)
\* character_base of a mask symbol (initTotalTerminals, terminalIndex,
\* generateTerminal)
character_base(m) ==
  IF m = ChL THEN 26 ELSE IF m = ChD THEN 10 ELSE Len(kGeneratorSymbols)

\* character_index of a terminal character under a mask symbol
character_index(m, c) ==
  IF m = ChL THEN l_char_to_int_(c)
  ELSE IF m = ChD THEN d_char_to_int_(c)
  ELSE s_char_to_int_(c)

\* the character of a value under a mask symbol
character_of(m, v) ==
  IF m = ChL THEN l_int_to_char_(v)
  ELSE IF m = ChD THEN d_int_to_char_(v)
  ELSE kGeneratorSymbols[v + 1]

\* UnseenTerminalGroup::initTotalTerminals
initTotalTerminals(generator_mask) ==
  ProdSeq([i \in 1..Len(generator_mask) |-> character_base(generator_mask[i])])

\* UnseenTerminalGroup::canGenerateTerminal
canGenerateTerminal(generator_mask, terminal) ==
  /\ Len(terminal) = Len(generator_mask)
  /\ \A i \in 1..Len(generator_mask) :
       character_index(generator_mask[i], terminal[i]) # -1

\* region_end = NULL (the default argument of terminalIndex)
NoRegionEnd == -1

\* The process ends with exit(EXIT_FAILURE): the value an operator returns
\* in place of a result when the source takes that path
ExitFailure == -2

\* The loop of terminalIndex run from string position 0 up, so that
\* position 0 is the most significant digit (i counts the positions left)
RECURSIVE terminalIndexLoop_FirstPositionFirst(_, _, _, _, _)
terminalIndexLoop_FirstPositionFirst(generator_mask, terminal, i, res, region_end) ==
  IF i < 1 THEN res
  ELSE LET k == Len(generator_mask) - i + 1
       IN IF character_index(generator_mask[k], terminal[k]) < 0
          THEN ExitFailure
          ELSE LET r == res * character_base(generator_mask[k])
                        + character_index(generator_mask[k], terminal[k])
               IN IF region_end # NoRegionEnd /\ r > region_end
                  THEN r
                  ELSE terminalIndexLoop_FirstPositionFirst(generator_mask, terminal,
                                                            i - 1, r, region_end)

\* UnseenTerminalGroup::terminalIndex: the loop runs i from size-1 down to 0
\* (here Len(mask) down to 1) and stops early once result > region_end.
RECURSIVE terminalIndexLoop(_, _, _, _, _)
terminalIndexLoop(generator_mask, terminal, i, res, region_end) ==
  IF i < 1 THEN res
  ELSE IF character_index(generator_mask[i], terminal[i]) < 0
  THEN ExitFailure
  ELSE LET r == res * character_base(generator_mask[i])
                + character_index(generator_mask[i], terminal[i])
       IN IF region_end # NoRegionEnd /\ r > region_end
          THEN r
          ELSE terminalIndexLoop(generator_mask, terminal, i - 1, r, region_end)

terminalIndex(generator_mask, terminal, region_end) ==
  terminalIndexLoop(generator_mask, terminal, Len(generator_mask), 0, region_end)

\* Mutant of generateTerminalLoop: the loop runs in the direction of the
\* loop of terminalIndex (from the last position down), which the source
\* warns against
RECURSIVE generateTerminalLoop_SameDirection(_, _, _)
generateTerminalLoop_SameDirection(generator_mask, i, terminal_index) ==
  IF i > Len(generator_mask) THEN <<>>
  ELSE LET m == generator_mask[Len(generator_mask) - i + 1]
       IN generateTerminalLoop_SameDirection(generator_mask, i + 1,
            terminal_index \div character_base(m))
          \o <<character_of(m, terminal_index % character_base(m))>>

\* UnseenTerminalGroup::generateTerminal: the loop runs i from 0 up
\* (here 1 up to Len(mask)), taking index % base and dividing.
RECURSIVE generateTerminalLoop(_, _, _)
generateTerminalLoop(generator_mask, i, terminal_index) ==
  IF i > Len(generator_mask) THEN <<>>
  ELSE LET b == character_base(generator_mask[i])
       IN <<character_of(generator_mask[i], terminal_index % b)>>
          \o generateTerminalLoop(generator_mask, i + 1, terminal_index \div b)

generateTerminal(grp, terminal_index) ==
  LET generated_terminal == generateTerminalLoop(grp.generator_mask, 1, terminal_index)
  IN IF grp.out_matching_needed
     THEN matchOutRepresentation(grp.out_representation, generated_terminal)
     ELSE generated_terminal

\* The seen part of a terminal data file: the lines before the first blank
\* line (every scan of the seen terminals stops at bytes_read == 1)
SeenLines(terminal_data) ==
  IF \E i \in 1..Len(terminal_data) : terminal_data[i].blank
  THEN SubSeq(terminal_data, 1,
              (CHOOSE i \in 1..Len(terminal_data) :
                 terminal_data[i].blank
                 /\ \A k \in 1..(i-1) : ~terminal_data[k].blank) - 1)
  ELSE terminal_data

\* BitArray: size_ and the set of marked indices
\* BitArray::findNextOpenSpace
findNextOpenSpace(ba, startindex) ==
  IF \E i \in startindex..(ba.size_ - 1) : i \notin ba.marked
  THEN CHOOSE i \in startindex..(ba.size_ - 1) :
         i \notin ba.marked /\ \A k \in startindex..(i-1) : k \in ba.marked
  ELSE IF startindex > ba.size_ THEN startindex ELSE ba.size_

\* Mutant of findUnseenTerminals: the terminal index is not adjusted by the
\* region offset before the bit is marked
findUnseenTerminals_NoOffset(grp, region_start, region_size) ==
  LET end0 == region_start + region_size - 1
      shrink == grp.total_terminals_ <= end0
      region_end == IF shrink THEN grp.total_terminals_ - 1 ELSE end0
      seen == SeenLines(grp.terminal_data)
  IN [size_ |-> IF shrink THEN region_end - region_start + 1 ELSE region_size,
      marked |->
        {terminalIndex(grp.generator_mask, seen[k].terminal, region_end) :
         k \in {j \in 1..Len(seen) :
                  /\ canGenerateTerminal(grp.generator_mask, seen[j].terminal)
                  /\ LET ti == terminalIndex(grp.generator_mask,
                                             seen[j].terminal, region_end)
                     IN ti <= region_end /\ region_start <= ti}}]

\* UnseenTerminalGroup::findUnseenTerminals: the BitArray for the region
findUnseenTerminals(grp, region_start, region_size) ==
  LET end0 == region_start + region_size - 1
      shrink == grp.total_terminals_ <= end0
      region_end == IF shrink THEN grp.total_terminals_ - 1 ELSE end0
      true_region_size == IF shrink THEN region_end - region_start + 1
                          ELSE region_size
      seen == SeenLines(grp.terminal_data)
  IN [size_ |-> true_region_size,
      marked |->
        {terminalIndex(grp.generator_mask, seen[k].terminal, region_end)
           - region_start :
         k \in {j \in 1..Len(seen) :
                  /\ canGenerateTerminal(grp.generator_mask, seen[j].terminal)
                  /\ LET ti == terminalIndex(grp.generator_mask,
                                             seen[j].terminal, region_end)
                     IN ti <= region_end /\ region_start <= ti}}]

\* UnseenTerminalGroup::processSeenTerminals, the search for the first
\* unseen string: region by region until an open index is found
RECURSIVE firstUnseenString(_, _)
firstUnseenString(grp, region_start) ==
  LET found_terminals == findUnseenTerminals(grp, region_start,
                                             kTerminalSearchRegionSize)
      region_end == region_start + kTerminalSearchRegionSize
      space_traversed == grp.total_terminals_ < region_end
      open_terminal == findNextOpenSpace(found_terminals, 0)
  IN IF open_terminal < found_terminals.size_
     THEN generateTerminal(grp, region_start + open_terminal)
     ELSE IF space_traversed THEN <<>>
     ELSE firstUnseenString(grp, region_end)

\* UnseenTerminalGroup constructor with processSeenTerminals
UnseenTerminalGroup(terminal_data, probability, generator_mask, out_representation) ==
  LET seen == SeenLines(terminal_data)
      seen_terminals_size ==
        Cardinality({k \in 1..Len(seen) :
                       canGenerateTerminal(generator_mask, seen[k].terminal)})
      total == initTotalTerminals(generator_mask)
      size == total - seen_terminals_size
      g0 == [kind |-> "unseen",
             terminal_data |-> terminal_data,
             generator_mask |-> generator_mask,
             out_representation |-> out_representation,
             out_matching_needed |->
               \E i \in 1..Len(out_representation) : out_representation[i] = ChU,
             total_probability_mass_ |-> probability,
             total_terminals_ |-> total,
             terminals_size_ |-> size,
             probability |-> PDivInt(probability, size),
             group_data_start_ |-> 0,
             group_data_size_ |-> 0,
             first_string_ |-> <<>>]
  IN [g0 EXCEPT !.first_string_ = firstUnseenString(g0, 0)]

\* Mutant of UnseenTerminalGroup::lookup: the count of lower seen terminals
\* is not subtracted from the terminal index
UnseenTerminalGroup_lookup_NoLowerCount(grp, terminal) ==
  IF ~canGenerateTerminal(grp.generator_mask, terminal)
  THEN FailedLookup(kTerminalNotFound + kTerminalCantBeGenerated)
  ELSE LET index == terminalIndex(grp.generator_mask, terminal, NoRegionEnd)
           seen == SeenLines(grp.terminal_data)
       IN IF \E k \in 1..Len(seen) :
               /\ canGenerateTerminal(grp.generator_mask, seen[k].terminal)
               /\ terminalIndex(grp.generator_mask, seen[k].terminal,
                                NoRegionEnd) = index
          THEN FailedLookup(kTerminalNotFound + kTerminalCollision)
          ELSE LookupData(kCanParse, grp.probability, index, <<>>, 0)

\* UnseenTerminalGroup::lookup
UnseenTerminalGroup_lookup(grp, terminal) ==
  IF ~canGenerateTerminal(grp.generator_mask, terminal)
  THEN FailedLookup(kTerminalNotFound + kTerminalCantBeGenerated)
  ELSE LET index == terminalIndex(grp.generator_mask, terminal, NoRegionEnd)
           seen == SeenLines(grp.terminal_data)
           gen == {k \in 1..Len(seen) :
                     canGenerateTerminal(grp.generator_mask, seen[k].terminal)}
           ti(k) == terminalIndex(grp.generator_mask, seen[k].terminal,
                                  NoRegionEnd)
           \* the scan returns at the first line with an equal index
           hit == {k \in gen : ti(k) = index}
           lower_count == Cardinality({k \in gen : ti(k) < index})
       IN IF hit # {}
          THEN FailedLookup(kTerminalNotFound + kTerminalCollision)
          ELSE LookupData(kCanParse, grp.probability, index - lower_count,
                          <<>>, 0)

(***************************************************************************)
(* SeenTerminalGroup                                                        *)
(***************************************************************************)
\* SeenTerminalGroup constructor with loadFirstString.  group_data_start is
\* the position (0-based line number) of the group's first line.
SeenTerminalGroup(terminal_data, probability, terminals_size, out_representation, group_data_start, group_data_size) ==
  LET out_matching ==
        \E i \in 1..Len(out_representation) : out_representation[i] = ChU
      terminalstr == terminal_data[group_data_start + 1].terminal
  IN [kind |-> "seen",
      terminal_data |-> terminal_data,
      generator_mask |-> <<>>,
      out_representation |-> out_representation,
      out_matching_needed |-> out_matching,
      total_probability_mass_ |-> <<0, 1>>,
      total_terminals_ |-> 0,
      terminals_size_ |-> terminals_size,
      probability |-> probability,
      group_data_start_ |-> group_data_start,
      group_data_size_ |-> group_data_size,
      first_string_ |->
        IF out_matching
        THEN matchOutRepresentation(out_representation, terminalstr)
        ELSE terminalstr]

\* SeenTerminalGroup::lookup: linear scan of terminals_size_ lines from the
\* start of the group; the index of the first line holding the terminal
SeenTerminalGroup_lookup(grp, terminal) ==
  LET hits == {k \in 0..(grp.terminals_size_ - 1) :
                 grp.terminal_data[grp.group_data_start_ + k + 1].terminal
                   = terminal}
  IN IF hits = {}
     THEN FailedLookup(kTerminalNotFound)
     ELSE LookupData(kCanParse, grp.probability,
                     CHOOSE k \in hits : \A m \in hits : k <= m, <<>>, 0)

\* virtual TerminalGroup::lookup
TerminalGroup_lookup(grp, terminal) ==
  IF grp.kind = "seen"
  THEN SeenTerminalGroup_lookup(grp, terminal)
  ELSE UnseenTerminalGroup_lookup(grp, terminal)

(***************************************************************************)
(* grammar_tools: terminal groups in a terminal data file                   *)
(***************************************************************************)
\* grammartools::IsEndOfTerminalGroup for the line at 0-based position pos
IsEndOfTerminalGroup(terminal_data, pos) ==
  IF terminal_data[pos + 1].blank THEN FALSE
  ELSE IF pos + 1 = Len(terminal_data) THEN TRUE
  ELSE IF terminal_data[pos + 2].blank THEN TRUE
  ELSE ~PEq(terminal_data[pos + 1].probability,
            terminal_data[pos + 2].probability)

\* grammartools::CountTerminalGroupsInText
RECURSIVE CountTerminalGroupsLoop(_, _, _, _)
CountTerminalGroupsLoop(terminal_data, pos, last_probability, number_of_groups) ==
  IF pos >= Len(terminal_data) THEN number_of_groups
  ELSE IF terminal_data[pos + 1].blank
       THEN CountTerminalGroupsLoop(terminal_data, pos + 1, <<0, 1>>,
                                    number_of_groups)
       ELSE CountTerminalGroupsLoop(
              terminal_data, pos + 1, terminal_data[pos + 1].probability,
              IF ~PEq(terminal_data[pos + 1].probability, last_probability)
              THEN number_of_groups + 1 ELSE number_of_groups)

CountTerminalGroupsInText(terminal_data) ==
  CountTerminalGroupsLoop(terminal_data, 0, <<0, 1>>, 0)

(***************************************************************************)
(* Nonterminal                                                              *)
(***************************************************************************)
\* Nonterminal::initializeTerminalGroups: the loop over the lines
RECURSIVE initializeTerminalGroupsLoop(_, _, _, _, _, _)
initializeTerminalGroupsLoop(terminal_data, representation, pos, in_seen_groups, group_start, current_group_size) ==
  IF pos >= Len(terminal_data) THEN <<>>
  ELSE IF terminal_data[pos + 1].blank
       THEN initializeTerminalGroupsLoop(terminal_data, representation,
              pos + 1, FALSE, group_start, current_group_size)
       ELSE IF IsEndOfTerminalGroup(terminal_data, pos)
            THEN <<IF in_seen_groups
                   THEN SeenTerminalGroup(terminal_data,
                          terminal_data[pos + 1].probability,
                          current_group_size, representation, group_start,
                          pos - group_start + 1)
                   ELSE UnseenTerminalGroup(terminal_data,
                          terminal_data[pos + 1].probability,
                          terminal_data[pos + 1].source_ids, representation)>>
                 \o initializeTerminalGroupsLoop(terminal_data, representation,
                      pos + 1, in_seen_groups, pos + 1, 1)
            ELSE initializeTerminalGroupsLoop(terminal_data, representation,
                   pos + 1, in_seen_groups, group_start, current_group_size + 1)

\* Nonterminal::loadNonterminal with initializeTerminalGroups, given the
\* contents of the terminals file of the representation
loadNonterminal(representation, terminal_data) ==
  [representation_ |-> representation,
   terminal_representation_ |->
     [i \in 1..Len(representation) |->
        IF representation[i] = ChU THEN ChL ELSE representation[i]],
   terminal_data_ |-> terminal_data,
   terminal_groups_size_ |-> CountTerminalGroupsInText(terminal_data),
   terminal_groups_ |->
     initializeTerminalGroupsLoop(terminal_data, representation, 0, TRUE, 0, 1)]

\* Simple getters (group_index is 0-based)
countTerminalGroups(nt) == nt.terminal_groups_size_
getFirstStringOfGroup(nt, group_index) ==
  nt.terminal_groups_[group_index + 1].first_string_
getProbabilityOfGroup(nt, group_index) ==
  nt.terminal_groups_[group_index + 1].probability
countStringsOfGroup(nt, group_index) ==
  nt.terminal_groups_[group_index + 1].terminals_size_

\* Nonterminal::countStrings
Nonterminal_countStrings(nt) ==
  SumSeq([i \in 1..nt.terminal_groups_size_ |->
            nt.terminal_groups_[i].terminals_size_])

\* Nonterminal::lookup.  (An input holding \x01 makes the source return
\* NULL; Structure::lookup strips \x01 before it calls, so the case is not
\* reached and is reported here as kUnexpectedFailure.)
Nonterminal_lookup(nt, input) ==
  IF \E i \in 1..Len(input) : input[i] = 1
  THEN FailedLookup(kUnexpectedFailure)
  ELSE IF convertStringToStructureRepresentation(input) # nt.representation_
  THEN FailedLookup(kTerminalNotFound)
  ELSE LET downcased_string == Downcase(input)
           hits == {i \in 0..(nt.terminal_groups_size_ - 1) :
                      HasCanParse(TerminalGroup_lookup(
                        nt.terminal_groups_[i + 1], downcased_string).parse_status)}
       IN IF hits = {}
          THEN FailedLookup(kTerminalNotFound + kTerminalCantBeGenerated)
          ELSE LET i == CHOOSE k \in hits : \A m \in hits : k <= m
               IN Only({LookupData(kCanParse, terminal_lookup.probability,
                                   terminal_lookup.index, <<>>, i) :
                          terminal_lookup \in
                            {TerminalGroup_lookup(nt.terminal_groups_[i + 1],
                                                  downcased_string)}})

(***************************************************************************)
(* UnseenTerminalGroup::UnseenTerminalGroupStringIterator                   *)
(***************************************************************************)
\* isEnd
UnseenIterator_isEnd(grp, it) == it.region_start_ >= grp.total_terminals_

\* increment: the iterator after the call and the value returned
RECURSIVE UnseenIterator_increment(_, _)
UnseenIterator_increment(grp, it) ==
  IF ~UnseenIterator_isEnd(grp, it)
  THEN LET new_index == findNextOpenSpace(it.found_terminals_,
                                          it.current_bitarray_index_ + 1)
       IN IF new_index >= it.found_terminals_.size_
          THEN LET region_start == it.region_start_ + kTerminalSearchRegionSize
               IN IF region_start >= grp.total_terminals_
                  THEN [it |-> [it EXCEPT !.region_start_ = region_start],
                        ret |-> FALSE]
                  ELSE UnseenIterator_increment(grp,
                         [it EXCEPT
                            !.region_start_ = region_start,
                            !.found_terminals_ =
                               findUnseenTerminals(grp, region_start,
                                                   kTerminalSearchRegionSize),
                            !.current_bitarray_index_ = -1])
          ELSE [it |-> [it EXCEPT
                          !.current_bitarray_index_ = new_index,
                          !.current_string_ =
                             generateTerminal(grp, it.region_start_ + new_index)],
                ret |-> TRUE]
  ELSE [it |-> it, ret |-> FALSE]

\* restart (the constructor does the same on a fresh object)
UnseenIterator_restart(grp, it) ==
  UnseenIterator_increment(grp,
    [it EXCEPT !.region_start_ = 0,
               !.current_bitarray_index_ = -1,
               !.found_terminals_ =
                  findUnseenTerminals(grp, 0, kTerminalSearchRegionSize)]).it

\* constructor
UnseenTerminalGroupStringIterator(grp) ==
  UnseenIterator_restart(grp,
    [region_start_ |-> 0,
     found_terminals_ |-> [size_ |-> kTerminalSearchRegionSize, marked |-> {}],
     current_bitarray_index_ |-> -1,
     current_string_ |-> <<>>])

(***************************************************************************)
(* MixedRadixNumber (mixed_radix_number.cpp): positions_[i].digit and      *)
(* positions_[i].base as two sequences                                      *)
(***************************************************************************)
\* constructor: the bases as given, then clear()
MixedRadixNumber(radices) ==
  [base |-> radices, digit |-> [i \in 1..Len(radices) |-> 0]]

MixedRadixNumber_clear(n) == [n EXCEPT !.digit = [i \in 1..Len(n.digit) |-> 0]]

\* increment that leaves the digits it carries out of at their maximum
RECURSIVE incrementLoop_NoReset(_, _)
incrementLoop_NoReset(n, j) ==
  IF j >= 0 /\ n.digit[j + 1] >= n.base[j + 1] - 1
  THEN incrementLoop_NoReset(n, j - 1)
  ELSE IF j < 0 THEN [number |-> n, ret |-> FALSE]
  ELSE [number |-> [n EXCEPT !.digit[j + 1] = @ + 1], ret |-> TRUE]

\* increment: Knuth's algorithm M from j = size_ - 1 down; false on overflow
RECURSIVE incrementLoop(_, _)
incrementLoop(n, j) ==
  IF j >= 0 /\ n.digit[j + 1] >= n.base[j + 1] - 1
  THEN incrementLoop([n EXCEPT !.digit[j + 1] = 0], j - 1)
  ELSE IF j < 0 THEN [number |-> n, ret |-> FALSE]
  ELSE [number |-> [n EXCEPT !.digit[j + 1] = @ + 1], ret |-> TRUE]

\* increment with the first position least significant
RECURSIVE incrementLoop_FirstFastest(_, _)
incrementLoop_FirstFastest(n, j) ==
  IF j < Len(n.digit) /\ n.digit[j + 1] >= n.base[j + 1] - 1
  THEN incrementLoop_FirstFastest([n EXCEPT !.digit[j + 1] = 0], j + 1)
  ELSE IF j >= Len(n.digit) THEN [number |-> n, ret |-> FALSE]
  ELSE [number |-> [n EXCEPT !.digit[j + 1] = @ + 1], ret |-> TRUE]

MixedRadixNumber_increment_FirstFastest(n) == incrementLoop_FirstFastest(n, 0)

MixedRadixNumber_increment(n) == incrementLoop(n, Len(n.digit) - 1)

\* intelligentSkip that maxes out every digit
RECURSIVE intelligentSkipLoop_AllDigits(_, _, _)
intelligentSkipLoop_AllDigits(n, j, reached_nonzero) ==
  IF j >= 0
  THEN intelligentSkipLoop_AllDigits([n EXCEPT !.digit[j + 1] = n.base[j + 1] - 1],
                                     j - 1, reached_nonzero)
  ELSE n

\* intelligentSkip that maxes out one digit more, the one left of the first
\* non-zero digit
RECURSIVE intelligentSkipLoop_OneMore(_, _, _)
intelligentSkipLoop_OneMore(n, j, reached_nonzero) ==
  IF j >= 0
  THEN IF reached_nonzero THEN [n EXCEPT !.digit[j + 1] = n.base[j + 1] - 1]
       ELSE intelligentSkipLoop_OneMore([n EXCEPT !.digit[j + 1] = n.base[j + 1] - 1],
                                        j - 1, n.digit[j + 1] # 0)
  ELSE n

\* intelligentSkip: from the right, max out the digits up to and including
\* the first non-zero digit, then increment
RECURSIVE intelligentSkipLoop(_, _, _)
intelligentSkipLoop(n, j, reached_nonzero) ==
  IF ~reached_nonzero /\ j >= 0
  THEN intelligentSkipLoop([n EXCEPT !.digit[j + 1] = n.base[j + 1] - 1],
                           j - 1, n.digit[j + 1] # 0)
  ELSE n

\* intelligentSkip without the closing increment()
MixedRadixNumber_intelligentSkip_NoIncrement(n) ==
  [number |-> intelligentSkipLoop(n, Len(n.digit) - 1, FALSE), ret |-> TRUE]

MixedRadixNumber_intelligentSkip(n) ==
  MixedRadixNumber_increment(intelligentSkipLoop(n, Len(n.digit) - 1, FALSE))

getPlace(n, place) == n.digit[place + 1]

setPlace(n, place, value) ==
  IF place < Len(n.digit) /\ value < n.base[place + 1]
  THEN [number |-> [n EXCEPT !.digit[place + 1] = value], ret |-> TRUE]
  ELSE [number |-> n, ret |-> FALSE]

(***************************************************************************)
(* The terminals folder of the grammars under check and the                 *)
(* NonterminalCollection.  Files are well formed: seen lines in             *)
(* non-increasing probability order, no terminal twice, the unseen          *)
(* probability below every seen probability.                                *)
(***************************************************************************)
\* L.txt: a 1/4 | b, c 1/8 | d 3/32 | unseen mask L, mass 11/32 (22 strings
\* of probability 1/64)
L_txt ==
  <<Line(<<97>>, <<1, 4>>, <<>>), Line(<<98>>, <<1, 8>>, <<>>),
    Line(<<99>>, <<1, 8>>, <<>>), Line(<<100>>, <<3, 32>>, <<>>),
    BlankLine, Line(<<>>, <<11, 32>>, <<ChL>>)>>

\* D.txt: 1 1/2 | 2 1/4 | unseen mask D, mass 1/4 (8 strings of 1/32)
D_txt ==
  <<Line(<<49>>, <<1, 2>>, <<>>), Line(<<50>>, <<1, 4>>, <<>>),
    BlankLine, Line(<<>>, <<1, 4>>, <<ChD>>)>>

\* S.txt: ! 3/4 | #, $ 1/8 (no unseen section)
S_txt ==
  <<Line(<<33>>, <<3, 4>>, <<>>), Line(<<35>>, <<1, 8>>, <<>>),
    Line(<<36>>, <<1, 8>>, <<>>)>>

\* LL.txt: ab 1/2 | cd, ba 1/4 (no unseen section)
LL_txt ==
  <<Line(<<97, 98>>, <<1, 2>>, <<>>), Line(<<99, 100>>, <<1, 4>>, <<>>),
    Line(<<98, 97>>, <<1, 4>>, <<>>)>>

\* terminals_folder + terminal_representation_ + ".txt"
TerminalsFolder(terminal_representation) ==
  IF terminal_representation = <<ChL>> THEN L_txt
  ELSE IF terminal_representation = <<ChD>> THEN D_txt
  ELSE IF terminal_representation = <<ChS>> THEN S_txt
  ELSE LL_txt

\* The nonterminal representations that occur in the grammars under check
Representations == {<<ChL>>, <<ChU>>, <<ChD>>, <<ChS>>, <<ChL, ChL>>}

\* NonterminalCollection::nonterminal_collection_ once every nonterminal of
\* the grammar has been created: one Nonterminal per representation
\* (f @@ <<>> is f; it makes TLC tabulate f once instead of evaluating the
\* body at every application)
nonterminal_collection_ ==
  [representation \in Representations |->
     loadNonterminal(representation,
       TerminalsFolder([i \in 1..Len(representation) |->
                          IF representation[i] = ChU THEN ChL
                          ELSE representation[i]]))] @@ <<>>

getOrCreateNonterminal(representation) == nonterminal_collection_[representation]

(***************************************************************************)
(* PatternManager (pattern_manager.cpp).  nonterminals_ holds the           *)
(* representations of the structure's nonterminals; the objects are those   *)
(* of the NonterminalCollection.                                            *)
(***************************************************************************)
\* kFactorialTable[0..12]; the entries for 13..20 do not fit the integers
\* of the checker and are not reached by the structures under check
kFactorialTable ==
  <<1, 1, 2, 6, 24, 120, 720, 5040, 40320, 362880, 3628800, 39916800,
    479001600>>
kMaxFactorial == 20

RECURSIVE mpz_fac_ui(_)
mpz_fac_ui(n) == IF n = 0 THEN 1 ELSE n * mpz_fac_ui(n - 1)

\* n! as getPermutationsOfGroup takes it: the table below kMaxFactorial
Factorial(n) == IF n < kMaxFactorial THEN kFactorialTable[n + 1] ELSE mpz_fac_ui(n)

\* PatternManager::InitGroupIDsAndCounts: group ids from 1 in order of first
\* occurrence of the nonterminal symbol
InitGroupIDsAndCounts(representation, structurebreakchar, structure_size) ==
  LET symbols == SplitOn(representation, structurebreakchar)
      first(i) == CHOOSE k \in 1..i :
                    symbols[k] = symbols[i] /\ \A m \in 1..(k - 1) : symbols[m] # symbols[i]
      id(i) == Cardinality({first(k) : k \in 1..first(i)})
      ids == [i \in 1..Len(symbols) |-> id(i)]
  IN [group_ids_ |-> ids,
      group_counts_ |->
        [g \in {ids[i] : i \in 1..Len(symbols)} |->
           Cardinality({i \in 1..Len(symbols) : ids[i] = g})],
      has_repeats_ |-> \E i \in 1..Len(symbols) : first(i) # i,
      structure_size_ |-> Len(symbols),
      ret |-> Len(symbols) = structure_size]

\* PatternManager::Init
PatternManager_Init(representation, structurebreakchar, structure_size, nonterminals, base_probability) ==
  LET g == InitGroupIDsAndCounts(representation, structurebreakchar, structure_size)
  IN [nonterminals_ |-> nonterminals,
      base_probability_ |-> base_probability,
      pattern_counter_ |->
        MixedRadixNumber([i \in 1..structure_size |->
          countTerminalGroups(getOrCreateNonterminal(nonterminals[i]))]),
      group_ids_ |-> g.group_ids_,
      group_counts_ |-> g.group_counts_,
      has_repeats_ |-> g.has_repeats_,
      structure_size_ |-> g.structure_size_]

resetPatternCounter(pm) ==
  [pm EXCEPT !.pattern_counter_ = MixedRadixNumber_clear(pm.pattern_counter_)]

\* incrementPatternCounter that reports success also when the counter has
\* overflowed and is back at its first state
incrementPatternCounter_Wrap(pm) ==
  LET r == MixedRadixNumber_increment(pm.pattern_counter_)
  IN [pm |-> [pm EXCEPT !.pattern_counter_ = r.number], ret |-> TRUE]

\* incrementPatternCounter, intelligentSkipPatternCounter: the manager after
\* the call and the value returned
incrementPatternCounter(pm) ==
  LET r == MixedRadixNumber_increment(pm.pattern_counter_)
  IN [pm |-> [pm EXCEPT !.pattern_counter_ = r.number], ret |-> r.ret]

intelligentSkipPatternCounter(pm) ==
  LET r == MixedRadixNumber_intelligentSkip(pm.pattern_counter_)
  IN [pm |-> [pm EXCEPT !.pattern_counter_ = r.number], ret |-> r.ret]

\* The loop shared by getFirstStringOfPattern and
\* getCanonicalizedFirstStringOfPattern over a given counter
FirstStringOfCounter(pm, counter) ==
  JoinWith([i \in 1..pm.structure_size_ |->
              getFirstStringOfGroup(getOrCreateNonterminal(pm.nonterminals_[i]),
                                    getPlace(counter, i - 1))], 1)

\* The loop shared by getPatternProbability and
\* getCanonicalizedPatternProbability: probability *= ... for i from 0 up
RECURSIVE ProbabilityOfCounter(_, _, _, _)
ProbabilityOfCounter(pm, counter, i, probability) ==
  IF i >= pm.structure_size_ THEN probability
  ELSE ProbabilityOfCounter(pm, counter, i + 1,
         PMul(probability,
              getProbabilityOfGroup(getOrCreateNonterminal(pm.nonterminals_[i + 1]),
                                    getPlace(counter, i))))

getFirstStringOfPattern(pm) == FirstStringOfCounter(pm, pm.pattern_counter_)

getPatternProbability(pm) ==
  ProbabilityOfCounter(pm, pm.pattern_counter_, 0, pm.base_probability_)

\* PatternManager::checkFirstPermutation: group_digits maps a group id to
\* the digit last seen for it (-1: no entry yet)
RECURSIVE checkFirstPermutationLoop(_, _, _, _)
checkFirstPermutationLoop(pm, counter, i, group_digits) ==
  IF i >= pm.structure_size_ THEN TRUE
  ELSE LET group_id == pm.group_ids_[i + 1]
           digit == getPlace(counter, i)
       IN IF pm.group_counts_[group_id] > 1
          THEN IF group_digits[group_id] # -1 /\ digit < group_digits[group_id]
               THEN FALSE
               ELSE checkFirstPermutationLoop(pm, counter, i + 1,
                      [group_digits EXCEPT ![group_id] = digit])
          ELSE checkFirstPermutationLoop(pm, counter, i + 1, group_digits)

checkFirstPermutation(pm, counter) ==
  checkFirstPermutationLoop(pm, counter, 0, [g \in DOMAIN pm.group_counts_ |-> -1])

\* PatternManager::isFirstPermutation
isFirstPermutation(pm) ==
  IF ~pm.has_repeats_ THEN TRUE ELSE checkFirstPermutation(pm, pm.pattern_counter_)

\* A queue that hands its values back in the order they were pushed
MinHeap_push_Append(heap, value) == Append(heap, value)

\* std::priority_queue with std::greater: kept as an ascending sequence,
\* top() is the head
MinHeap_push(heap, value) ==
  LET k == Cardinality({i \in 1..Len(heap) : heap[i] <= value})
  IN SubSeq(heap, 1, k) \o <<value>> \o SubSeq(heap, k + 1, Len(heap))

\* canonicalizePattern, first pass: fill the heap of each group id
RECURSIVE canonicalizeFillLoop(_, _, _, _)
canonicalizeFillLoop(pm, canonical_counter, i, sorted_group_values) ==
  IF i >= pm.structure_size_ THEN sorted_group_values
  ELSE canonicalizeFillLoop(pm, canonical_counter, i + 1,
         [sorted_group_values EXCEPT ![pm.group_ids_[i + 1]] =
            MinHeap_push(@, getPlace(canonical_counter, i))])

\* The counter that stands for "the source has exited" in canonicalizePattern
ExitedCounter == [base |-> <<>>, digit |-> <<>>]

\* canonicalizePattern, second pass: refill the counter from the heaps;
\* ExitedCounter on an empty heap or a failed setPlace
RECURSIVE canonicalizeRefillLoop(_, _, _, _)
canonicalizeRefillLoop(pm, canonical_counter, i, sorted_group_values) ==
  IF i >= pm.structure_size_ THEN canonical_counter
  ELSE LET group_id == pm.group_ids_[i + 1]
       IN IF sorted_group_values[group_id] = <<>> THEN ExitedCounter
          ELSE LET r == setPlace(canonical_counter, i, Head(sorted_group_values[group_id]))
               IN IF ~r.ret THEN ExitedCounter
                  ELSE canonicalizeRefillLoop(pm, r.number, i + 1,
                         [sorted_group_values EXCEPT ![group_id] = Tail(@)])

\* canonicalizePattern that returns the copy of the counter as it is
canonicalizePattern_NoSort(pm) == pm.pattern_counter_

\* PatternManager::canonicalizePattern: the canonical counter, or
\* ExitedCounter where the source exits
canonicalizePattern(pm) ==
  IF isFirstPermutation(pm) THEN pm.pattern_counter_
  ELSE LET canonical_counter ==
             canonicalizeRefillLoop(pm, pm.pattern_counter_, 0,
               canonicalizeFillLoop(pm, pm.pattern_counter_, 0,
                 [g \in DOMAIN pm.group_counts_ |-> <<>>]))
       IN IF canonical_counter = ExitedCounter THEN ExitedCounter
          ELSE IF ~checkFirstPermutation(pm, canonical_counter) THEN ExitedCounter
          ELSE canonical_counter

getCanonicalizedFirstStringOfPattern(pm) ==
  FirstStringOfCounter(pm, canonicalizePattern(pm))

getCanonicalizedPatternProbability(pm) ==
  ProbabilityOfCounter(pm, canonicalizePattern(pm), 0, pm.base_probability_)

\* PatternManager::countStrings
PatternManager_countStrings(pm) ==
  ProdSeq([i \in 1..pm.structure_size_ |->
             countStringsOfGroup(getOrCreateNonterminal(pm.nonterminals_[i]),
                                 getPlace(pm.pattern_counter_, i - 1))])

\* PatternManager::getCountsWithinRepeatingGroups: for each repeating group
\* id, the multiplicity of each digit of the group in the current pattern
getCountsWithinRepeatingGroups(pm) ==
  LET positions(g) == {i \in 0..(pm.structure_size_ - 1) : pm.group_ids_[i + 1] = g}
  IN [g \in {h \in DOMAIN pm.group_counts_ : pm.group_counts_[h] > 1} |->
        [digit \in {getPlace(pm.pattern_counter_, i) : i \in positions(g)} |->
           Cardinality({i \in positions(g) : getPlace(pm.pattern_counter_, i) = digit})]]

\* The keys of a std::map in iteration (ascending) order
RECURSIVE KeysInOrder(_)
KeysInOrder(keys) ==
  IF keys = {} THEN <<>>
  ELSE LET k == CHOOSE x \in keys : \A y \in keys : x <= y
       IN <<k>> \o KeysInOrder(keys \ {k})

\* getPermutationsOfGroup without the division by the multiplicities
getPermutationsOfGroup_NoDivide(counts) ==
  Factorial(Cardinality(DOMAIN counts))

\* getPermutationsOfGroup: n! of the total count, then divide out the
\* factorial of each multiplicity above 1
RECURSIVE divideOutMultiplicities(_, _, _)
divideOutMultiplicities(perms, counts, keys) ==
  IF keys = <<>> THEN perms
  ELSE divideOutMultiplicities(
         IF counts[Head(keys)] > 1 THEN perms \div Factorial(counts[Head(keys)])
         ELSE perms,
         counts, Tail(keys))

getPermutationsOfGroup(counts) ==
  LET keys == KeysInOrder(DOMAIN counts)
      total_count == SumSeq([i \in 1..Len(keys) |-> counts[keys[i]]])
  IN divideOutMultiplicities(Factorial(total_count), counts, keys)

\* PatternManager::countPermutations
countPermutations(pm) ==
  IF ~pm.has_repeats_ THEN 1
  ELSE LET counts_within_groups == getCountsWithinRepeatingGroups(pm)
           groups == KeysInOrder(DOMAIN counts_within_groups)
       IN ProdSeq([i \in 1..Len(groups) |->
                     getPermutationsOfGroup(counts_within_groups[groups[i]])])

\* getPermutationRank, the while loop over the positions of one group:
\* counts is the group's digit -> multiplicity map, consumed on the way
RECURSIVE permutationRankLoop_NoConsume(_, _, _, _, _, _, _)
permutationRankLoop_NoConsume(pm, group_id, k, current_size, current_perms, counts, rank) ==
  IF ~(k < pm.structure_size_ /\ current_perms > 1) THEN rank
  ELSE IF pm.group_ids_[k + 1] # group_id
  THEN permutationRankLoop_NoConsume(pm, group_id, k + 1, current_size, current_perms, counts, rank)
  ELSE LET digit == getPlace(pm.pattern_counter_, k)
           digit_count == counts[digit]
           smaller == KeysInOrder({d \in DOMAIN counts : d < digit})
           weak_digit_rank == SumSeq([i \in 1..Len(smaller) |-> counts[smaller[i]]])
       IN permutationRankLoop_NoConsume(pm, group_id, k + 1, current_size - 1,
            (current_perms * digit_count) \div current_size,
            counts,
            rank + ((current_perms * weak_digit_rank) \div current_size))

RECURSIVE permutationRankLoop(_, _, _, _, _, _, _)
permutationRankLoop(pm, group_id, k, current_size, current_perms, counts, rank) ==
  IF ~(k < pm.structure_size_ /\ current_perms > 1) THEN rank
  ELSE IF pm.group_ids_[k + 1] # group_id
  THEN permutationRankLoop(pm, group_id, k + 1, current_size, current_perms, counts, rank)
  ELSE LET digit == getPlace(pm.pattern_counter_, k)
           digit_count == counts[digit]
           smaller == KeysInOrder({d \in DOMAIN counts : d < digit})
           weak_digit_rank == SumSeq([i \in 1..Len(smaller) |-> counts[smaller[i]]])
       IN permutationRankLoop(pm, group_id, k + 1, current_size - 1,
            (current_perms * digit_count) \div current_size,
            [counts EXCEPT ![digit] = @ - 1],
            rank + ((current_perms * weak_digit_rank) \div current_size))

\* The loop over the repeating groups taken from the highest group id down
RECURSIVE permutationRankOfGroups_LastGroupFirst(_, _, _, _)
permutationRankOfGroups_LastGroupFirst(pm, counts_within_groups, groups, rank_so_far) ==
  IF groups = <<>> THEN rank_so_far
  ELSE LET group_id == groups[Len(groups)]
           group_perms == getPermutationsOfGroup(counts_within_groups[group_id])
           rank == permutationRankLoop(pm, group_id, 0, pm.group_counts_[group_id],
                                       group_perms, counts_within_groups[group_id], 0)
       IN IF rank >= group_perms THEN ExitFailure
          ELSE permutationRankOfGroups_LastGroupFirst(pm, counts_within_groups,
                 SubSeq(groups, 1, Len(groups) - 1), rank_so_far * group_perms + rank)

\* getPermutationRank, the loop over the repeating groups in ascending
\* order of group id; ExitFailure where the sanity check exits
RECURSIVE permutationRankOfGroups(_, _, _, _)
permutationRankOfGroups(pm, counts_within_groups, groups, rank_so_far) ==
  IF groups = <<>> THEN rank_so_far
  ELSE LET group_id == Head(groups)
           group_perms == getPermutationsOfGroup(counts_within_groups[group_id])
           rank == permutationRankLoop(pm, group_id, 0, pm.group_counts_[group_id],
                                       group_perms, counts_within_groups[group_id], 0)
       IN IF rank >= group_perms THEN ExitFailure
          ELSE permutationRankOfGroups(pm, counts_within_groups, Tail(groups),
                                       rank_so_far * group_perms + rank)

\* PatternManager::getPermutationRank
getPermutationRank(pm) ==
  IF ~pm.has_repeats_ THEN 0
  ELSE LET counts_within_groups == getCountsWithinRepeatingGroups(pm)
       IN permutationRankOfGroups(pm, counts_within_groups,
                                  KeysInOrder(DOMAIN counts_within_groups), 0)

\* lookupAndSetPattern, "Set pattern counter": stops at the first setPlace
\* that fails
RECURSIVE setPatternCounterLoop(_, _, _)
setPatternCounterLoop(counter, terminal_lookups, i) ==
  IF i >= Len(terminal_lookups) THEN [number |-> counter, ret |-> TRUE]
  ELSE LET r == setPlace(counter, i, terminal_lookups[i + 1].terminal_group_index)
       IN IF ~r.ret THEN [number |-> r.number, ret |-> FALSE]
          ELSE setPatternCounterLoop(r.number, terminal_lookups, i + 1)

\* lookupAndSetPattern, "Compute rank_in_pattern": Horner's rule from
\* position 0, radices the string counts of the current groups
RECURSIVE rankInPatternLoop_LastPositionFirst(_, _, _, _)
rankInPatternLoop_LastPositionFirst(pm, terminal_lookups, i, rank_in_pattern) ==
  IF i >= pm.structure_size_ THEN rank_in_pattern
  ELSE LET j == pm.structure_size_ - 1 - i
           strings_in_group ==
             countStringsOfGroup(getOrCreateNonterminal(pm.nonterminals_[j + 1]),
                                 getPlace(pm.pattern_counter_, j))
       IN rankInPatternLoop_LastPositionFirst(pm, terminal_lookups, i + 1,
            rank_in_pattern * strings_in_group + terminal_lookups[j + 1].index)

RECURSIVE rankInPatternLoop(_, _, _, _)
rankInPatternLoop(pm, terminal_lookups, i, rank_in_pattern) ==
  IF i >= pm.structure_size_ THEN rank_in_pattern
  ELSE LET strings_in_group ==
             countStringsOfGroup(getOrCreateNonterminal(pm.nonterminals_[i + 1]),
                                 getPlace(pm.pattern_counter_, i))
       IN rankInPatternLoop(pm, terminal_lookups, i + 1,
            rank_in_pattern * strings_in_group + terminal_lookups[i + 1].index)

\* PatternManager::lookupAndSetPattern: the manager after the call, the
\* LookupData returned, and whether the source has exited on the way (in
\* getPermutationRank or canonicalizePattern)
lookupAndSetPattern(pm, terminals) ==
  Only({
    LET failing == {i \in 1..pm.structure_size_ :
                      ~HasCanParse(terminal_lookups[i].parse_status)}
    IN IF failing # {}
       THEN [pm |-> pm, exit |-> FALSE,
             lookup_data |->
               FailedLookup(terminal_lookups[CHOOSE i \in failing :
                                               \A k \in failing : i <= k].parse_status)]
       ELSE LET set == setPatternCounterLoop(pm.pattern_counter_, terminal_lookups, 0)
                set_pm == [pm EXCEPT !.pattern_counter_ = set.number]
            IN IF ~set.ret
               THEN [pm |-> set_pm, exit |-> FALSE,
                     lookup_data |-> FailedLookup(kUnexpectedFailure)]
               ELSE Only({
                      IF permutation_rank = ExitFailure
                           \/ canonicalizePattern(set_pm) = ExitedCounter
                      THEN [pm |-> set_pm, exit |-> TRUE,
                            lookup_data |-> FailedLookup(kUnexpectedFailure)]
                      ELSE [pm |-> set_pm, exit |-> FALSE,
                            lookup_data |->
                              LookupData(kCanParse,
                                getCanonicalizedPatternProbability(set_pm),
                                permutation_rank * PatternManager_countStrings(set_pm)
                                  + rankInPatternLoop(set_pm, terminal_lookups, 0, 0),
                                getCanonicalizedFirstStringOfPattern(set_pm), 0)] :
                      permutation_rank \in {getPermutationRank(set_pm)}}) :
    terminal_lookups \in
      {[i \in 1..pm.structure_size_ |->
          Nonterminal_lookup(getOrCreateNonterminal(pm.nonterminals_[i]),
                             terminals[i])]}})

(***************************************************************************)
(* TerminalGroupStringIterator: the seen iterator and the virtual calls     *)
(***************************************************************************)
SeenIterator_isEnd(it) == it.bytes_remaining_ = 0

\* SeenTerminalGroupStringIterator::increment (a line is one position and
\* one unit of bytes_remaining_)
SeenIterator_increment(grp, it) ==
  IF ~SeenIterator_isEnd(it)
  THEN LET bytes_read == 1
           terminalstr == grp.terminal_data[it.current_group_position_ + 1].terminal
       IN [it |-> [current_group_position_ |-> it.current_group_position_ + bytes_read,
                   bytes_remaining_ |->
                     IF bytes_read <= it.bytes_remaining_
                     THEN it.bytes_remaining_ - bytes_read ELSE 0,
                   current_string_ |->
                     IF grp.out_matching_needed
                     THEN matchOutRepresentation(grp.out_representation, terminalstr)
                     ELSE terminalstr],
           ret |-> TRUE]
  ELSE [it |-> it, ret |-> FALSE]

\* SeenTerminalGroupStringIterator::restart and the constructor
SeenIterator_restart(grp, it) ==
  SeenIterator_increment(grp,
    [it EXCEPT !.current_group_position_ = grp.group_data_start_,
               !.bytes_remaining_ = grp.group_data_size_]).it

SeenTerminalGroupStringIterator(grp) ==
  SeenIterator_restart(grp,
    [current_group_position_ |-> grp.group_data_start_,
     bytes_remaining_ |-> grp.group_data_size_,
     current_string_ |-> <<>>])

\* virtual getStringIterator, increment, restart
getStringIterator(grp) ==
  IF grp.kind = "seen" THEN SeenTerminalGroupStringIterator(grp)
  ELSE UnseenTerminalGroupStringIterator(grp)

Iterator_increment(grp, it) ==
  IF grp.kind = "seen" THEN SeenIterator_increment(grp, it)
  ELSE UnseenIterator_increment(grp, it)

Iterator_isEnd(grp, it) ==
  IF grp.kind = "seen" THEN SeenIterator_isEnd(it)
  ELSE UnseenIterator_isEnd(grp, it)

Iterator_restart(grp, it) ==
  IF grp.kind = "seen" THEN SeenIterator_restart(grp, it)
  ELSE UnseenIterator_restart(grp, it)

\* Nonterminal::getStringIteratorForGroup
getStringIteratorForGroup(nt, group_index) ==
  getStringIterator(nt.terminal_groups_[group_index + 1])

\* The terminal group an iterator of the current pattern belongs to
GroupOfPlace(pm, i) ==
  getOrCreateNonterminal(pm.nonterminals_[i + 1]).terminal_groups_[getPlace(pm.pattern_counter_, i) + 1]

\* PatternManager::getStringIterators
getStringIterators(pm) ==
  [i \in 1..pm.structure_size_ |->
     getStringIteratorForGroup(getOrCreateNonterminal(pm.nonterminals_[i]),
                               getPlace(pm.pattern_counter_, i - 1))]

\* The iterator loop of generateStrings without restart() of an iterator
\* that has overflowed
RECURSIVE incrementIteratorsLoop_NoRestart(_, _, _)
incrementIteratorsLoop_NoRestart(pm, its, iter_index) ==
  LET grp == GroupOfPlace(pm, iter_index)
      r == Iterator_increment(grp, its[iter_index + 1])
  IN IF r.ret
     THEN [iterators |-> [its EXCEPT ![iter_index + 1] = r.it], strings_left |-> TRUE]
     ELSE IF iter_index - 1 < 0
     THEN [iterators |-> its, strings_left |-> FALSE]
     ELSE incrementIteratorsLoop_NoRestart(pm, its, iter_index - 1)

\* The iterator loop of generateStrings stopping at the first overflow
\* instead of carrying into the previous position
incrementIteratorsLoop_NoCarry(pm, its, iter_index) ==
  LET grp == GroupOfPlace(pm, iter_index)
      r == Iterator_increment(grp, its[iter_index + 1])
  IN IF r.ret
     THEN [iterators |-> [its EXCEPT ![iter_index + 1] = r.it], strings_left |-> TRUE]
     ELSE [iterators |-> [its EXCEPT ![iter_index + 1] = Iterator_restart(grp, r.it)],
           strings_left |-> FALSE]

\* Structure::generateStrings, "Increment the string iterators as needed":
\* the iterators after the loop and strings_left
RECURSIVE incrementIteratorsLoop(_, _, _)
incrementIteratorsLoop(pm, its, iter_index) ==
  LET grp == GroupOfPlace(pm, iter_index)
      r == Iterator_increment(grp, its[iter_index + 1])
  IN IF r.ret
     THEN [iterators |-> [its EXCEPT ![iter_index + 1] = r.it], strings_left |-> TRUE]
     ELSE LET restarted == [its EXCEPT ![iter_index + 1] = Iterator_restart(grp, r.it)]
          IN IF iter_index - 1 < 0
             THEN [iterators |-> restarted, strings_left |-> FALSE]
             ELSE incrementIteratorsLoop(pm, restarted, iter_index - 1)

(***************************************************************************)
(* Structure (structure.cpp)                                                *)
(***************************************************************************)
\* Structure::loadStructure: nonterminals_ holds the representations whose
\* objects the NonterminalCollection hands out
loadStructure(representation, probability) ==
  [representation_ |-> representation,
   probability_ |-> probability,
   nonterminals_size_ |->
     1 + Cardinality({i \in 1..Len(representation) :
                        representation[i] = kStructureBreakChar}),
   nonterminals_ |-> SplitOn(representation, kStructureBreakChar)]

\* Structure::countStrings
Structure_countStrings(st) ==
  ProdSeq([i \in 1..st.nonterminals_size_ |->
             Nonterminal_countStrings(getOrCreateNonterminal(st.nonterminals_[i]))])

\* The PatternManager generatePatterns, generateStrings and lookup set up
NewPatternManager(st) ==
  PatternManager_Init(st.representation_, kStructureBreakChar,
                      st.nonterminals_size_, st.nonterminals_, st.probability_)

\* Structure::lookup, the loop over the nonterminals: the string position
\* after nonterminal i and the terminals cut so far, parseable FALSE on the
\* first mismatch or when the input runs out
RECURSIVE splitIntoTerminalsLoop(_, _, _, _, _, _)
splitIntoTerminalsLoop(st, unbroken_input, inputstring_representation, i, string_position, terminals) ==
  IF i >= st.nonterminals_size_
  THEN [parseable |-> TRUE, string_position |-> string_position, terminals |-> terminals]
  ELSE LET nonterminal_representation ==
             getOrCreateNonterminal(st.nonterminals_[i + 1]).representation_
           length == Len(nonterminal_representation)
       IN IF string_position + length <= Len(inputstring_representation)
             /\ SubSeq(inputstring_representation, string_position + 1,
                       string_position + length) = nonterminal_representation
          THEN splitIntoTerminalsLoop(st, unbroken_input, inputstring_representation,
                 i + 1, string_position + length,
                 Append(terminals, SubSeq(unbroken_input, string_position + 1,
                                          string_position + length)))
          ELSE [parseable |-> FALSE, string_position |-> string_position,
                terminals |-> terminals]

\* Structure::lookup: the LookupData returned and whether the source exits
Structure_lookup(st, input) ==
  LET unbroken_input == StripBreakCharacterFromTerminal(input)
      inputstring_representation ==
        convertStringToStructureRepresentation(unbroken_input)
  IN Only({
       IF ~split.parseable \/ split.string_position # Len(inputstring_representation)
       THEN [lookup_data |-> FailedLookup(kStructureNotFound), exit |-> FALSE]
       ELSE Only({[lookup_data |-> pattern_lookup.lookup_data,
                   exit |-> pattern_lookup.exit
                              \/ HasUnexpectedFailure(
                                   pattern_lookup.lookup_data.parse_status)] :
                    pattern_lookup \in
                      {lookupAndSetPattern(NewPatternManager(st), split.terminals)}}) :
       split \in {splitIntoTerminalsLoop(st, unbroken_input,
                                         inputstring_representation, 0, 0, <<>>)}})

(***************************************************************************)
(* PCFG (pcfg.cpp): structures_ is the sequence of loaded structures        *)
(***************************************************************************)
\* The conditions with <= between the probabilities: a tie replaces
isBetterLookup_TiesReplace(best, best_can_parse, structure_lookup) ==
  \/ ~best_can_parse /\ HasCanParse(structure_lookup.parse_status)
  \/ /\ best_can_parse
     /\ HasCanParse(structure_lookup.parse_status)
     /\ PLeq(best.probability, structure_lookup.probability)
  \/ ~best_can_parse /\ best.parse_status < structure_lookup.parse_status

\* The three conditions of lookup and lookupSum under which the structure's
\* result replaces the current best
isBetterLookup(best, best_can_parse, structure_lookup) ==
  \/ ~best_can_parse /\ HasCanParse(structure_lookup.parse_status)
  \/ /\ best_can_parse
     /\ HasCanParse(structure_lookup.parse_status)
     /\ PLess(best.probability, structure_lookup.probability)
  \/ ~best_can_parse /\ best.parse_status < structure_lookup.parse_status

\* The loop body adding a probability to the total only when the structure
\* becomes the best
lookupLoopBody_SumOfBest(st, input, s) ==
  Only({
    LET structure_lookup == looked.lookup_data
        better == isBetterLookup(s.lookup_data, s.canParse, structure_lookup)
    IN [lookup_data |-> IF better THEN structure_lookup ELSE s.lookup_data,
        canParse |-> IF better THEN HasCanParse(structure_lookup.parse_status)
                     ELSE s.canParse,
        total_probability |->
          IF better /\ HasCanParse(structure_lookup.parse_status)
          THEN PAdd(s.total_probability, structure_lookup.probability)
          ELSE s.total_probability,
        exit |-> s.exit \/ looked.exit] :
    looked \in {Structure_lookup(st, input)}})

\* One iteration of the loop of lookup and lookupSum over structures_[i]
lookupLoopBody(st, input, s) ==
  Only({
    LET structure_lookup == looked.lookup_data
        better == isBetterLookup(s.lookup_data, s.canParse, structure_lookup)
    IN [lookup_data |-> IF better THEN structure_lookup ELSE s.lookup_data,
        canParse |-> IF better THEN HasCanParse(structure_lookup.parse_status)
                     ELSE s.canParse,
        total_probability |->
          IF HasCanParse(structure_lookup.parse_status)
          THEN PAdd(s.total_probability, structure_lookup.probability)
          ELSE s.total_probability,
        exit |-> s.exit \/ looked.exit] :
    looked \in {Structure_lookup(st, input)}})

\* The object lookup and lookupSum start from: parse_status
\* kStructureNotFound, index 0 (mpz_init), first_string_of_pattern empty,
\* probability never assigned (so any value)
InitialLookupState(indeterminate) ==
  [lookup_data |-> LookupData(kStructureNotFound, indeterminate, 0, <<>>, 0),
   canParse |-> FALSE, total_probability |-> <<0, 1>>, exit |-> FALSE]

RECURSIVE lookupLoop(_, _, _, _)
lookupLoop(structures, input, i, s) ==
  IF i >= Len(structures) THEN s
  ELSE lookupLoop(structures, input, i + 1,
                  lookupLoopBody(structures[i + 1], input, s))

\* PCFG::lookup
PCFG_lookup(structures, input, indeterminate) ==
  lookupLoop(structures, input, 0, InitialLookupState(indeterminate)).lookup_data

\* PCFG::lookupSum: the probability is overwritten before returning
\* (with whether a Structure::lookup has exited on the way)
PCFG_lookupSum(structures, input) ==
  Only({[lookup_data |-> [s.lookup_data EXCEPT !.probability = s.total_probability],
         exit |-> s.exit] :
          s \in {lookupLoop(structures, input, 0, InitialLookupState(MinusOne))}})

(***************************************************************************)
(* Terminal data files used by the checks of the unseen terminal groups.    *)
(* Each is a well-formed terminals file: seen lines in non-increasing       *)
(* probability order, no terminal twice, a blank line, one unseen line      *)
(* whose source_ids field holds the generator mask.                         *)
(***************************************************************************)
\* seen a, g, h..n, z: with letters a..z at indices 0..25 the seen terminals
\* sit at the start and at the end of the space, on both sides of the first
\* region boundary, and fill the second region of size 7
LettersFile ==
  <<Line(<<97>>, <<1, 4>>, <<>>), Line(<<103>>, <<1, 8>>, <<>>),
    Line(<<104>>, <<1, 16>>, <<>>), Line(<<105>>, <<1, 16>>, <<>>),
    Line(<<106>>, <<1, 16>>, <<>>), Line(<<107>>, <<1, 16>>, <<>>),
    Line(<<108>>, <<1, 16>>, <<>>), Line(<<109>>, <<1, 16>>, <<>>),
    Line(<<110>>, <<1, 16>>, <<>>), Line(<<122>>, <<1, 32>>, <<>>),
    BlankLine, Line(<<>>, <<5, 32>>, <<ChL>>)>>

\* seen "1", "2"
DigitsFile ==
  <<Line(<<49>>, <<1, 2>>, <<>>), Line(<<50>>, <<1, 4>>, <<>>),
    BlankLine, Line(<<>>, <<1, 4>>, <<ChD>>)>>

\* seen "!", "#" and the byte 0x02, which is of class S and is not one of
\* the generator symbols
SymbolsFile ==
  <<Line(<<33>>, <<1, 2>>, <<>>), Line(<<35>>, <<1, 8>>, <<>>),
    Line(<<2>>, <<1, 8>>, <<>>), BlankLine, Line(<<>>, <<1, 4>>, <<ChS>>)>>

\* seen "00", "60", "70", "12", "21", "99" (terminal indices 0, 6, 7, 21, 12, 99)
TwoDigitsFile ==
  <<Line(<<48, 48>>, <<1, 4>>, <<>>), Line(<<54, 48>>, <<1, 8>>, <<>>),
    Line(<<55, 48>>, <<1, 8>>, <<>>), Line(<<49, 50>>, <<1, 16>>, <<>>),
    Line(<<50, 49>>, <<1, 16>>, <<>>), Line(<<57, 57>>, <<1, 16>>, <<>>),
    BlankLine, Line(<<>>, <<5, 16>>, <<ChD, ChD>>)>>

\* seen "a0", "b1", "z9"
LetterDigitFile ==
  <<Line(<<97, 48>>, <<1, 4>>, <<>>), Line(<<98, 49>>, <<1, 8>>, <<>>),
    Line(<<122, 57>>, <<1, 16>>, <<>>),
    BlankLine, Line(<<>>, <<9, 16>>, <<ChL, ChD>>)>>

\* The unseen terminal group of a loaded nonterminal: its last group
UnseenGroupOf(nt) == nt.terminal_groups_[nt.terminal_groups_size_]

\* Unseen groups for the iterator and lookup checks
IteratedUnseenGroups ==
  {UnseenGroupOf(loadNonterminal(<<ChL>>, LettersFile)),
   UnseenGroupOf(loadNonterminal(<<ChU>>, LettersFile)),
   UnseenGroupOf(loadNonterminal(<<ChD>>, DigitsFile)),
   UnseenGroupOf(loadNonterminal(<<ChS>>, SymbolsFile)),
   UnseenGroupOf(loadNonterminal(<<ChD, ChD>>, TwoDigitsFile))}

\* Unseen groups for the checks of terminalIndex and generateTerminal
IndexedUnseenGroups ==
  IteratedUnseenGroups
    \cup {UnseenGroupOf(loadNonterminal(<<ChL, ChD>>, LetterDigitFile)),
          UnseenGroupOf(loadNonterminal(<<ChU, ChD>>, LetterDigitFile))}

\* The characters of a mask symbol, and every string of a mask
Alphabet(m) ==
  IF m = ChL THEN 97..122
  ELSE IF m = ChD THEN 48..57
  ELSE {kGeneratorSymbols[i] : i \in 1..Len(kGeneratorSymbols)}

RECURSIVE StringsOfMask(_)
StringsOfMask(generator_mask) ==
  IF generator_mask = <<>> THEN {<<>>}
  ELSE {<<c>> \o rest : c \in Alphabet(Head(generator_mask)),
                        rest \in StringsOfMask(Tail(generator_mask))}

\* The strings of each generator mask in use, tabulated
MaskStringsTable ==
  [m \in {g.generator_mask : g \in IndexedUnseenGroups} |-> StringsOfMask(m)]
MaskStrings(generator_mask) == MaskStringsTable[generator_mask]

\* Terminals handed to UnseenTerminalGroup::lookup: strings of the mask
\* (all of them for a mask of one character, those over six characters of
\* each class for a longer mask), their upper-cased forms, and strings of
\* another length or class
LookupAlphabet(m) == {character_of(m, v) : v \in {0, 1, 2, 6, 7, 9}}

RECURSIVE LookupStrings(_)
LookupStrings(generator_mask) ==
  IF generator_mask = <<>> THEN {<<>>}
  ELSE {<<c>> \o rest : c \in LookupAlphabet(Head(generator_mask)),
                        rest \in LookupStrings(Tail(generator_mask))}

LookupTerminalsTable ==
  [m \in {g.generator_mask : g \in IteratedUnseenGroups} |->
     LET strings == IF Len(m) = 1 THEN StringsOfMask(m) ELSE LookupStrings(m)
     IN strings
          \cup {[i \in 1..Len(t) |-> toupper(t[i])] : t \in strings}
          \cup {<<>>, <<97>>, <<49>>, <<33>>, <<2>>, <<97, 98>>, <<49, 97>>}]
LookupTerminals(grp) == LookupTerminalsTable[grp.generator_mask]

(***************************************************************************)
(* Specification SpecUnseen: an unseen terminal group, its string iterator  *)
(* driven as Structure::generateStrings and produceRandomStringOfGroup      *)
(* drive it, and UnseenTerminalGroup::lookup                                *)
(***************************************************************************)
InitUnseen ==
  /\ NumberVarsUnused /\ TableVarsUnused /\ accurate_probabilities = Unused
  /\ CollectionVarsUnused /\ RandomVarsUnused
  /\ GenVarsUnused /\ LookupVarsUnused
  /\ group \in IteratedUnseenGroups
  /\ uiter = UnseenTerminalGroupStringIterator(group)
  /\ yielded = <<uiter.current_string_>>
  /\ more = ~UnseenIterator_isEnd(group, uiter)
  /\ result = [op |-> "none"]
  /\ pc = "unseen"

\* iterator->increment(), the current string read when it returns true
IncrementUnseenIterator ==
  /\ pc = "unseen" /\ more
  /\ LET r == UnseenIterator_increment(group, uiter)
     IN /\ uiter' = r.it
        /\ more' = r.ret
        /\ yielded' = IF r.ret THEN Append(yielded, r.it.current_string_)
                      ELSE yielded
  /\ UNCHANGED <<genVars, lookupVars, group, result, pc,
                 numberVars, tableVars, accurate_probabilities,
                 collectionVars, randomVars>>

\* iterator->restart()
RestartUnseenIterator ==
  /\ pc = "unseen"
  /\ uiter' = UnseenIterator_restart(group, uiter)
  /\ yielded' = <<uiter'.current_string_>>
  /\ more' = ~UnseenIterator_isEnd(group, uiter')
  /\ UNCHANGED <<genVars, lookupVars, group, result, pc,
                 numberVars, tableVars, accurate_probabilities,
                 collectionVars, randomVars>>

\* group->lookup(terminal)
LookupUnseenTerminal ==
  /\ pc = "unseen"
  /\ \E terminal \in LookupTerminals(group) :
       result' = [op |-> "lookup", terminal |-> terminal,
                  ret |-> UnseenTerminalGroup_lookup(group, terminal)]
  /\ UNCHANGED <<genVars, lookupVars, unseenVars, pc,
                 numberVars, tableVars, accurate_probabilities,
                 collectionVars, randomVars>>

NextUnseen ==
  \/ IncrementUnseenIterator
  \/ RestartUnseenIterator
  \/ LookupUnseenTerminal

SpecUnseen == InitUnseen /\ [][NextUnseen]_vars

\* Reference definitions for the claims on unseen groups, written without
\* the operators of the group: the seen terminals of the file, the strings
\* of the mask that are not seen, and the lower-case form of an output
SeenTerminalsOf(grp) ==
  {SeenLines(grp.terminal_data)[k].terminal :
     k \in 1..Len(SeenLines(grp.terminal_data))}
UnseenStringsOf(grp) == MaskStrings(grp.generator_mask) \ SeenTerminalsOf(grp)
TerminalIndexOf(grp, t) ==
  terminalIndex(grp.generator_mask, Downcase(t), NoRegionEnd)

\* C8: the iterator of an unseen group yields only strings of the generator
\* mask that are not seen terminals (in the group's output case), in
\* strictly ascending terminalIndex order, hence each once, also across the
\* search regions; when increment has returned false the strings yielded are
\* all of them, and their number is the size of the mask space minus the
\* number of seen terminals the mask can produce (the group's countStrings).
C8_IteratorYieldsUnseenAscending ==
  pc = "unseen" =>
    LET unseen == UnseenStringsOf(group)
        index == [k \in 1..Len(yielded) |-> TerminalIndexOf(group, yielded[k])]
    IN /\ \A k \in 1..Len(yielded) :
            /\ Downcase(yielded[k]) \in unseen
            /\ yielded[k] = matchOutRepresentation(group.out_representation,
                                                   Downcase(yielded[k]))
       /\ \A k \in 1..(Len(yielded) - 1) : index[k] < index[k + 1]
       /\ ~more =>
            /\ {Downcase(yielded[k]) : k \in 1..Len(yielded)} = unseen
            /\ Len(yielded) = Cardinality(MaskStrings(group.generator_mask))
                 - Cardinality(SeenTerminalsOf(group)
                                 \cap MaskStrings(group.generator_mask))
            /\ Len(yielded) = group.terminals_size_

\* C8 witness: the iterator of the letters group has run to the end, past
\* the region that is entirely seen
C8_Witness ==
  /\ pc = "unseen" /\ ~more
  /\ group.generator_mask = <<ChL>>
  /\ Len(yielded) = 16
  /\ yielded[1] = <<98>> /\ yielded[6] = <<111>>

\* C9: UnseenTerminalGroup::lookup(t) returns TerminalNotFound |
\* TerminalCantBeGenerated when t is no string of the mask, TerminalNotFound |
\* TerminalCollision when t is a seen terminal, and otherwise CanParse with
\* index terminalIndex(t) minus the number of seen terminals of the mask with
\* a smaller terminalIndex, which is the zero-based position at which the
\* iterator yields t.
C9_UnseenLookup ==
  (pc = "unseen" /\ result.op = "lookup") =>
    LET t == result.terminal
        ret == result.ret
        lower == {s \in SeenTerminalsOf(group) \cap MaskStrings(group.generator_mask) :
                    TerminalIndexOf(group, s) < TerminalIndexOf(group, t)}
    IN IF t \notin MaskStrings(group.generator_mask)
       THEN /\ ret.parse_status = kTerminalNotFound + kTerminalCantBeGenerated
            /\ ret.index = -1
       ELSE IF t \in SeenTerminalsOf(group)
       THEN /\ ret.parse_status = kTerminalNotFound + kTerminalCollision
            /\ ret.index = -1
       ELSE /\ ret.parse_status = kCanParse
            /\ ret.index = TerminalIndexOf(group, t) - Cardinality(lower)
            /\ Len(yielded) > ret.index => Downcase(yielded[ret.index + 1]) = t
            /\ ~more => ret.index < Len(yielded)

\* C9 witness: a parseable lookup of a terminal with seen terminals below
\* it, after the iterator has yielded it
C9_Witness ==
  /\ pc = "unseen" /\ result.op = "lookup"
  /\ result.ret.parse_status = kCanParse
  /\ result.ret.index > 0
  /\ result.ret.index < TerminalIndexOf(group, result.terminal)
  /\ Len(yielded) > result.ret.index

(***************************************************************************)
(* Specification SpecIndex: terminalIndex and generateTerminal of an unseen *)
(* group applied to every string and every index of its mask                *)
(***************************************************************************)
InitIndex ==
  /\ NumberVarsUnused /\ TableVarsUnused /\ accurate_probabilities = Unused
  /\ CollectionVarsUnused /\ RandomVarsUnused
  /\ GenVarsUnused /\ LookupVarsUnused
  /\ group \in IndexedUnseenGroups
  /\ uiter = Unused /\ yielded = Unused /\ more = Unused
  /\ result = [op |-> "none"]
  /\ pc = "index"

\* terminalIndex(index, terminal) followed by generateTerminal(index)
GenerateTerminalOfTerminalIndex ==
  /\ pc = "index"
  /\ \E terminal \in MaskStrings(group.generator_mask) :
       LET index == terminalIndex(group.generator_mask, terminal, NoRegionEnd)
       IN result' = [op |-> "generateTerminal", terminal |-> terminal,
                     index |-> index, ret |-> generateTerminal(group, index)]
  /\ UNCHANGED <<genVars, lookupVars, unseenVars, pc,
                 numberVars, tableVars, accurate_probabilities,
                 collectionVars, randomVars>>

\* generateTerminal(index) followed by terminalIndex of the string returned
TerminalIndexOfGeneratedTerminal ==
  /\ pc = "index"
  /\ \E index \in 0..(group.total_terminals_ - 1) :
       LET terminal == generateTerminal(group, index)
       IN result' = [op |-> "terminalIndex", terminal |-> terminal,
                     index |-> index,
                     ret |-> terminalIndex(group.generator_mask, terminal,
                                           NoRegionEnd)]
  /\ UNCHANGED <<genVars, lookupVars, unseenVars, pc,
                 numberVars, tableVars, accurate_probabilities,
                 collectionVars, randomVars>>

NextIndex ==
  \/ GenerateTerminalOfTerminalIndex
  \/ TerminalIndexOfGeneratedTerminal

SpecIndex == InitIndex /\ [][NextIndex]_vars

\* An index below the base of string position 0 touches position 0 only:
\* every later position holds the character of value 0
OnlyPositionZero(grp, terminal) ==
  \A i \in 2..Len(terminal) :
    tolower(terminal[i]) = character_of(grp.generator_mask[i], 0)

\* C10 (as amended): in a group whose out representation has no upper-case
\* position, generateTerminal(terminalIndex(t)) = t for every string t of the
\* mask and terminalIndex(generateTerminal(i)) = i for every index i of the
\* mask space; in a group with an upper-case position generateTerminal
\* returns t upper-cased at those positions, terminalIndex ends the process
\* on that string, and the index of its lower-case form is i.  In both
\* functions string position 0 is the least significant digit.
C10_RoundTripWithoutUppercase ==
  pc = "index" =>
    /\ result.op = "generateTerminal" =>
         /\ result.ret = matchOutRepresentation(group.out_representation,
                                                result.terminal)
         /\ ~group.out_matching_needed => result.ret = result.terminal
         /\ result.index < character_base(group.generator_mask[1])
              <=> OnlyPositionZero(group, result.terminal)
    /\ result.op = "terminalIndex" =>
         /\ TerminalIndexOf(group, result.terminal) = result.index
         /\ ~group.out_matching_needed => result.ret = result.index
         /\ group.out_matching_needed => result.ret = ExitFailure
         /\ result.index < character_base(group.generator_mask[1])
              <=> OnlyPositionZero(group, result.terminal)

\* C10 witness: index 1 of the mask LD generates "b0", whose terminal index
\* is 1 again, in a group without upper case
C10_Witness ==
  /\ pc = "index"
  /\ group.generator_mask = <<ChL, ChD>> /\ ~group.out_matching_needed
  /\ result.op = "terminalIndex"
  /\ result.terminal = <<98, 48>> /\ result.index = 1 /\ result.ret = 1

\* C10 as stated: for every lower-case string t of the mask
\* generateTerminal(terminalIndex(t)) = t, and for every index i of the mask
\* space terminalIndex(generateTerminal(i)) = i (violated in a group with an
\* upper-case out representation)
C10_RoundTripAsStated ==
  pc = "index" =>
    /\ result.op = "generateTerminal" => result.ret = result.terminal
    /\ result.op = "terminalIndex" => result.ret = result.index

\* terminalIndex of every string of every mask, tabulated
TerminalIndexTable ==
  [m \in {g.generator_mask : g \in IndexedUnseenGroups} |->
     [s \in MaskStrings(m) |-> terminalIndex(m, s, NoRegionEnd)] @@ <<>>] @@ <<>>

\* s comes before t when the strings are compared character by character
\* from string position 0 (from the last position), each character by its
\* place in its class
PrecedesLeftToRight(generator_mask, s, t) ==
  \E i \in 1..Len(s) :
     /\ character_index(generator_mask[i], s[i]) < character_index(generator_mask[i], t[i])
     /\ \A j \in 1..(i - 1) : s[j] = t[j]
PrecedesRightToLeft(generator_mask, s, t) ==
  \E i \in 1..Len(s) :
     /\ character_index(generator_mask[i], s[i]) < character_index(generator_mask[i], t[i])
     /\ \A j \in (i + 1)..Len(s) : s[j] = t[j]

EnumeratedNonterminals == {<<ChL>>, <<ChD>>, <<ChS>>}

\* Every structure of 1..MaxNonterminals of them
EnumeratedStructures ==
  {JoinWith(nts, kStructureBreakChar) :
     nts \in UNION {[1..n -> EnumeratedNonterminals] : n \in 1..MaxNonterminals}}

\* Structures with two repeated nonterminals whose positions interleave, and
\* with an upper-case nonterminal (same terminals file as L)
DELEDEL == <<ChD, 69, ChL, 69, ChD, 69, ChL>>
LEDEDEL == <<ChL, 69, ChD, 69, ChD, 69, ChL>>
UELEU == <<ChU, 69, ChL, 69, ChU>>
InterleavedStructures == {DELEDEL, LEDEDEL, UELEU}

One == <<1, 1>>
Zero == <<0, 1>>

\* A grammar of three structures; LL and LEL produce strings of the same
\* character classes
LEL == <<ChL, 69, ChL>>
MixedGrammar ==
  <<loadStructure(LEL, <<1, 2>>), loadStructure(<<ChL, ChL>>, <<1, 4>>),
    loadStructure(<<ChD>>, <<1, 4>>)>>

PatternGrammars ==
  {<<loadStructure(r, One)>> : r \in EnumeratedStructures \cup InterleavedStructures}
    \cup {MixedGrammar}

PatternCutoffs == {Zero, <<1, 1024>>, <<1, 64>>, <<1, 16>>}

\* Before the first structure is entered no PatternManager exists
NoPatternManager == [structure_size_ |-> 0]

InitGen ==
  /\ NumberVarsUnused /\ TableVarsUnused /\ accurate_probabilities = Unused
  /\ CollectionVarsUnused /\ RandomVarsUnused
  /\ LookupVarsUnused /\ UnseenVarsUnused
  /\ pcfg \in PatternGrammars
  /\ cutoff \in PatternCutoffs
  /\ structure_index = 0
  /\ pattern_manager = NoPatternManager
  /\ patterns_left = FALSE
  /\ output = <<>>
  /\ iterators = Unused
  /\ result = [op |-> "none"]
  /\ pc = "generatePatterns"

\* PCFG::generatePatterns calls structures_[i].generatePatterns: the pattern
\* manager is initialised
BeginStructurePatterns ==
  /\ pc = "generatePatterns"
  /\ structure_index < Len(pcfg)
  /\ pc' = "patterns"
  /\ pattern_manager' = NewPatternManager(pcfg[structure_index + 1])
  /\ patterns_left' = TRUE
  /\ UNCHANGED <<pcfg, cutoff, structure_index, output, iterators, lookupVars,
                 unseenVars, result,
                 numberVars, tableVars, accurate_probabilities,
                 collectionVars, randomVars>>

\* loop body, pattern below the cutoff: intelligent skip
SkipPatternsBelowCutoff ==
  /\ pc = "patterns" /\ patterns_left
  /\ PLess(getPatternProbability(pattern_manager), cutoff)
  /\ LET r == intelligentSkipPatternCounter(pattern_manager)
     IN /\ pattern_manager' = r.pm
        /\ patterns_left' = r.ret
  /\ result' = [op |-> "intelligentSkip"]
  /\ UNCHANGED <<pcfg, cutoff, structure_index, output, iterators, lookupVars,
                 unseenVars, pc,
                 numberVars, tableVars, accurate_probabilities,
                 collectionVars, randomVars>>

\* loop body, first permutation at or above the cutoff: print, increment.
\* The fields after pattern_representation are not printed; they record
\* where the line came from.
OutputPattern ==
  /\ pc = "patterns" /\ patterns_left
  /\ ~PLess(getPatternProbability(pattern_manager), cutoff)
  /\ isFirstPermutation(pattern_manager)
  /\ LET string_count == PatternManager_countStrings(pattern_manager)
         permutation_count == countPermutations(pattern_manager)
         r == incrementPatternCounter(pattern_manager)
     IN /\ output' = Append(output,
             [probability |-> getPatternProbability(pattern_manager),
              total_count |-> string_count * permutation_count,
              pattern_representation |-> getFirstStringOfPattern(pattern_manager),
              structure_index |-> structure_index,
              digits |-> pattern_manager.pattern_counter_.digit,
              string_count |-> string_count,
              permutation_count |-> permutation_count])
        /\ pattern_manager' = r.pm
        /\ patterns_left' = r.ret
  /\ result' = [op |-> "output"]
  /\ UNCHANGED <<pcfg, cutoff, structure_index, iterators, lookupVars,
                 unseenVars, pc,
                 numberVars, tableVars, accurate_probabilities,
                 collectionVars, randomVars>>

\* loop body, a later permutation at or above the cutoff: increment only
PassPermutation ==
  /\ pc = "patterns" /\ patterns_left
  /\ ~PLess(getPatternProbability(pattern_manager), cutoff)
  /\ ~isFirstPermutation(pattern_manager)
  /\ LET r == incrementPatternCounter(pattern_manager)
     IN /\ pattern_manager' = r.pm
        /\ patterns_left' = r.ret
  /\ result' = [op |-> "pass"]
  /\ UNCHANGED <<pcfg, cutoff, structure_index, output, iterators, lookupVars,
                 unseenVars, pc,
                 numberVars, tableVars, accurate_probabilities,
                 collectionVars, randomVars>>

\* the counter has overflowed: Structure::generatePatterns returns true
EndStructurePatterns ==
  /\ pc = "patterns" /\ ~patterns_left
  /\ structure_index' = structure_index + 1
  /\ pc' = "generatePatterns"
  /\ UNCHANGED <<pcfg, cutoff, pattern_manager, patterns_left, output,
                 iterators, lookupVars, unseenVars, result,
                 numberVars, tableVars, accurate_probabilities,
                 collectionVars, randomVars>>

\* PCFG::generatePatterns returns true
ReturnFromGeneratePatterns ==
  /\ pc = "generatePatterns"
  /\ structure_index >= Len(pcfg)
  /\ pc' = "patternsDone"
  /\ UNCHANGED <<genVars, lookupVars, unseenVars, result,
                 numberVars, tableVars, accurate_probabilities,
                 collectionVars, randomVars>>

NextGen ==
  \/ BeginStructurePatterns
  \/ SkipPatternsBelowCutoff
  \/ OutputPattern
  \/ PassPermutation
  \/ EndStructurePatterns
  \/ ReturnFromGeneratePatterns

SpecGen == InitGen /\ [][NextGen]_vars

\* Every state of the pattern counter of a structure
AllDigits(st) ==
  {d \in [1..st.nonterminals_size_ -> 0..3] :
     \A i \in 1..st.nonterminals_size_ :
        d[i] < countTerminalGroups(getOrCreateNonterminal(st.nonterminals_[i]))}

\* A pattern is canonical when the digits at the positions of one
\* nonterminal never decrease from left to right
CanonicalDigits(st, d) ==
  \A i, j \in 1..st.nonterminals_size_ :
     (i < j /\ st.nonterminals_[i] = st.nonterminals_[j]) => d[i] <= d[j]

\* Probability of a pattern: the structure's times the groups'
RECURSIVE PProdSeq(_)
PProdSeq(ps) == IF ps = <<>> THEN One ELSE PMul(Head(ps), PProdSeq(Tail(ps)))

ProbabilityOfDigits(st, d) ==
  PMul(st.probability_,
       PProdSeq([i \in 1..st.nonterminals_size_ |->
                   getOrCreateNonterminal(st.nonterminals_[i]).terminal_groups_[d[i] + 1].probability]))

\* The terminal groups of every nonterminal of the structure are listed in
\* non-increasing order of probability
GroupsNonIncreasing(st) ==
  \A i \in 1..st.nonterminals_size_ :
     LET groups == getOrCreateNonterminal(st.nonterminals_[i]).terminal_groups_
     IN \A k \in 1..(Len(groups) - 1) :
          PLeq(groups[k + 1].probability, groups[k].probability)

\* The patterns generatePatterns has to emit for a structure
PatternsToEmit(st) ==
  {d \in AllDigits(st) :
     CanonicalDigits(st, d) /\ PLeq(cutoff, ProbabilityOfDigits(st, d))}

LinesOfStructure(k) == {i \in 1..Len(output) : output[i].structure_index = k}

InPatternEnumeration == pc \in {"generatePatterns", "patterns", "patternsDone"}

\* C1: for a structure whose nonterminals list their groups in
\* non-increasing probability order, generatePatterns(cutoff) emits only
\* canonical patterns of probability >= cutoff, emits none twice, and by the
\* time the counter has overflowed has emitted every one of them (with
\* cutoff 0: every canonical pattern)
C1_PatternsEmittedExactlyOnce ==
  InPatternEnumeration =>
    \A k \in 0..(Len(pcfg) - 1) :
       GroupsNonIncreasing(pcfg[k + 1]) =>
         /\ \A i \in LinesOfStructure(k) :
              output[i].digits \in PatternsToEmit(pcfg[k + 1])
         /\ \A i, j \in LinesOfStructure(k) :
              i # j => output[i].digits # output[j].digits
         /\ k < structure_index =>
              {output[i].digits : i \in LinesOfStructure(k)} = PatternsToEmit(pcfg[k + 1])
         /\ (k < structure_index /\ cutoff = Zero) =>
              {output[i].digits : i \in LinesOfStructure(k)}
                = {d \in AllDigits(pcfg[k + 1]) : CanonicalDigits(pcfg[k + 1], d)}

\* LEL with cutoff 1/64: the enumeration is over, some canonical patterns
\* were emitted, others were skipped as below the cutoff
C1_Witness ==
  /\ pc = "patternsDone"
  /\ pcfg = <<loadStructure(LEL, One)>>
  /\ cutoff = <<1, 64>>
  /\ {output[i].digits : i \in 1..Len(output)}
       = {<<0, 0>>, <<0, 1>>, <<0, 2>>, <<1, 1>>}

\* The value of a counter state in mixed radix, last position least
\* significant
RECURSIVE ValueOfCounter(_, _)
ValueOfCounter(base, d) ==
  IF d = <<>> THEN 0
  ELSE d[Len(d)]
         + base[Len(d)] * ValueOfCounter(SubSeq(base, 1, Len(d) - 1),
                                         SubSeq(d, 1, Len(d) - 1))

BasesOfStructure(st) == NewPatternManager(st).pattern_counter_.base

\* C18 as stated: among the patterns emitted for one structure, none has a
\* higher probability than one emitted before it
C18_NonIncreasingAsStated ==
  InPatternEnumeration =>
    \A i, j \in 1..Len(output) :
       (i < j /\ output[i].structure_index = output[j].structure_index)
         => PLeq(output[j].probability, output[i].probability)

\* C18, corrected: the patterns emitted for one structure appear in
\* ascending order of the pattern counter (mixed-radix order of the group
\* indexes, first nonterminal most significant); where the groups of the
\* nonterminals are in non-increasing probability order, a later pattern
\* has no higher probability than an earlier one whenever each of its
\* group indexes is >= the earlier pattern's
C18_CounterOrder ==
  InPatternEnumeration =>
    \A k \in {output[i].structure_index : i \in 1..Len(output)} :
      \E base \in {BasesOfStructure(pcfg[k + 1])},
         ordered \in {GroupsNonIncreasing(pcfg[k + 1])} :
        \A i, j \in LinesOfStructure(k) :
           i < j =>
             /\ ValueOfCounter(base, output[i].digits)
                  < ValueOfCounter(base, output[j].digits)
             /\ (/\ ordered
                 /\ \A q \in 1..Len(output[i].digits) :
                      output[j].digits[q] >= output[i].digits[q])
                  => PLeq(output[j].probability, output[i].probability)

\* L E D with cutoff 0: group indexes (0, 2), probability 1/128, is emitted
\* before (1, 0), probability 1/16
C18_Witness ==
  /\ pc = "patternsDone"
  /\ pcfg = <<loadStructure(<<ChL, 69, ChD>>, One)>>
  /\ cutoff = Zero
  /\ \E i, j \in 1..Len(output) :
       /\ i < j
       /\ output[i].digits = <<0, 2>> /\ output[i].probability = <<1, 128>>
       /\ output[j].digits = <<1, 0>> /\ output[j].probability = <<1, 16>>

\* Two counter states belong to the same pattern when, for every
\* nonterminal, they hold the same digits the same number of times at the
\* positions of that nonterminal
SamePermutationClass(st, d, e) ==
  \A i \in 1..st.nonterminals_size_ :
     Cardinality({j \in 1..st.nonterminals_size_ :
                    st.nonterminals_[j] = st.nonterminals_[i] /\ d[j] = d[i]})
       = Cardinality({j \in 1..st.nonterminals_size_ :
                        st.nonterminals_[j] = st.nonterminals_[i] /\ e[j] = d[i]})

\* C5: countPermutations of an emitted (canonical) pattern is the number of
\* counter states that canonicalise to it, and once a structure has been
\* enumerated with cutoff 0 the emitted counts (strings in the pattern x
\* countPermutations) add up to Structure::countStrings
C5_CountsAddUpToCountStrings ==
  InPatternEnumeration =>
    \A k \in 0..(Len(pcfg) - 1) :
       /\ \A i \in LinesOfStructure(k) :
            /\ output[i].permutation_count
                 = Cardinality({d \in AllDigits(pcfg[k + 1]) :
                      SamePermutationClass(pcfg[k + 1], d, output[i].digits)})
            /\ output[i].total_count
                 = output[i].string_count * output[i].permutation_count
       /\ (k < structure_index /\ cutoff = Zero) =>
            SumSeq([i \in 1..Len(output) |->
                      IF output[i].structure_index = k
                      THEN output[i].total_count ELSE 0])
              = Structure_countStrings(pcfg[k + 1])

\* DELEDEL enumerated with cutoff 0: the pattern D-groups (0, 1), L-groups
\* (1, 3) stands for 2 x 2 counter states
C5_Witness ==
  /\ pc = "patternsDone"
  /\ cutoff = Zero
  /\ pcfg = <<loadStructure(DELEDEL, One)>>
  /\ \E i \in 1..Len(output) :
       /\ output[i].digits = <<0, 1, 1, 3>>
       /\ output[i].permutation_count = 4

(***************************************************************************)
(* The PatternManager of a structure driven through its public calls        *)
(***************************************************************************)
LELEL == <<ChL, 69, ChL, 69, ChL>>
LEDEL == <<ChL, 69, ChD, 69, ChL>>
SESED == <<ChS, 69, ChS, 69, ChD>>
LLEL == <<ChL, ChL, 69, ChL>>
SEDESEDES == <<ChS, 69, ChD, 69, ChS, 69, ChD, 69, ChS>>
ManagerStructures ==
  {<<ChL>>, LEL, LELEL, LEDEL, SESED, LLEL, DELEDEL, LEDEDEL, UELEU, SEDESEDES}

\* Terminals handed to lookupAndSetPattern for a nonterminal: seen ones of
\* every group, the first and the last unseen one, and one that fails
TestTerminals(representation) ==
  IF representation = <<ChL>>
  THEN {<<97>>, <<98>>, <<99>>, <<100>>, <<101>>, <<122>>}
  ELSE IF representation = <<ChU>> THEN {<<65>>, <<67>>, <<69>>, <<90>>}
  ELSE IF representation = <<ChD>> THEN {<<49>>, <<50>>, <<48>>, <<57>>}
  ELSE IF representation = <<ChS>> THEN {<<33>>, <<35>>, <<36>>, <<37>>}
  ELSE {<<97, 98>>, <<99, 100>>, <<98, 97>>, <<122, 122>>}

TestTerminalSequences(st) ==
  {t \in [1..st.nonterminals_size_ -> UNION {TestTerminals(r) : r \in Representations}] :
     \A i \in 1..st.nonterminals_size_ : t[i] \in TestTerminals(st.nonterminals_[i])}

InitPM ==
  /\ NumberVarsUnused /\ TableVarsUnused /\ accurate_probabilities = Unused
  /\ CollectionVarsUnused /\ RandomVarsUnused
  /\ LookupVarsUnused /\ UnseenVarsUnused
  /\ \E r \in ManagerStructures : pcfg = <<loadStructure(r, One)>>
  /\ cutoff = Unused /\ structure_index = 0
  /\ pattern_manager = NewPatternManager(pcfg[1])
  /\ patterns_left = Unused /\ output = Unused /\ iterators = Unused
  /\ result = [op |-> "Init"]
  /\ pc = "manager"

ResetPatternCounter ==
  /\ pc = "manager"
  /\ pattern_manager' = resetPatternCounter(pattern_manager)
  /\ result' = [op |-> "resetPatternCounter"]
  /\ UNCHANGED <<pcfg, cutoff, structure_index, patterns_left, output,
                 iterators, lookupVars, unseenVars, pc,
                 numberVars, tableVars, accurate_probabilities,
                 collectionVars, randomVars>>

IncrementPatternCounter ==
  /\ pc = "manager"
  /\ LET r == incrementPatternCounter(pattern_manager)
     IN /\ pattern_manager' = r.pm
        /\ result' = [op |-> "incrementPatternCounter", ret |-> r.ret]
  /\ UNCHANGED <<pcfg, cutoff, structure_index, patterns_left, output,
                 iterators, lookupVars, unseenVars, pc,
                 numberVars, tableVars, accurate_probabilities,
                 collectionVars, randomVars>>

IntelligentSkipPatternCounter ==
  /\ pc = "manager"
  /\ LET r == intelligentSkipPatternCounter(pattern_manager)
     IN /\ pattern_manager' = r.pm
        /\ result' = [op |-> "intelligentSkipPatternCounter", ret |-> r.ret]
  /\ UNCHANGED <<pcfg, cutoff, structure_index, patterns_left, output,
                 iterators, lookupVars, unseenVars, pc,
                 numberVars, tableVars, accurate_probabilities,
                 collectionVars, randomVars>>

\* lookupAndSetPattern on a manager fresh from Init, as Structure::lookup
\* calls it
LookupAndSetPattern ==
  /\ pc = "manager" /\ result.op = "Init"
  /\ \E terminals \in TestTerminalSequences(pcfg[1]) :
       \E r \in {lookupAndSetPattern(pattern_manager, terminals)} :
          /\ pattern_manager' = r.pm
          /\ result' = [op |-> "lookupAndSetPattern", terminals |-> terminals,
                        ret |-> r.lookup_data, exit |-> r.exit]
  /\ UNCHANGED <<pcfg, cutoff, structure_index, patterns_left, output,
                 iterators, lookupVars, unseenVars, pc,
                 numberVars, tableVars, accurate_probabilities,
                 collectionVars, randomVars>>

\* getPermutationRank, countPermutations and isFirstPermutation of the
\* current pattern
GetPermutationRank ==
  /\ pc = "manager"
  /\ result' = [op |-> "getPermutationRank",
                ret |-> getPermutationRank(pattern_manager),
                permutations |-> countPermutations(pattern_manager),
                first |-> isFirstPermutation(pattern_manager)]
  /\ UNCHANGED <<genVars, lookupVars, unseenVars, pc,
                 numberVars, tableVars, accurate_probabilities,
                 collectionVars, randomVars>>

\* canonicalizePattern of the current pattern: works on a deep copy of the
\* counter; the manager's own counter after the call is recorded with the
\* counter returned
CanonicalizePattern ==
  /\ pc = "manager"
  /\ result' = [op |-> "canonicalizePattern",
                ret |-> canonicalizePattern(pattern_manager),
                counter |-> pattern_manager.pattern_counter_]
  /\ UNCHANGED <<genVars, lookupVars, unseenVars, pc,
                 numberVars, tableVars, accurate_probabilities,
                 collectionVars, randomVars>>

NextPM ==
  \/ ResetPatternCounter
  \/ IncrementPatternCounter
  \/ IntelligentSkipPatternCounter
  \/ LookupAndSetPattern
  \/ GetPermutationRank
  \/ CanonicalizePattern

SpecPM == InitPM /\ [][NextPM]_vars

\* The strings of a terminal group in the order its iterator yields them,
\* tabulated for every group of every nonterminal
RECURSIVE StringsOfIterator(_, _)
StringsOfIterator(grp, it) ==
  LET r == Iterator_increment(grp, it)
  IN IF r.ret THEN <<it.current_string_>> \o StringsOfIterator(grp, r.it)
     ELSE <<it.current_string_>>

StringsOfGroupTable ==
  [r \in Representations |->
     [g \in 1..getOrCreateNonterminal(r).terminal_groups_size_ |->
        LET grp == getOrCreateNonterminal(r).terminal_groups_[g]
        IN StringsOfIterator(grp, getStringIterator(grp))] @@ <<>>] @@ <<>>

\* (0-based group index)
StringsOfGroup(representation, group_index) ==
  StringsOfGroupTable[representation][group_index + 1]

PositionIn(seq, x) == CHOOSE k \in 1..Len(seq) : seq[k] = x

\* The rank of a terminal sequence among the strings of its pattern: the
\* mixed-radix number of the terminals' positions in their groups, bases
\* the group sizes, first position most significant
RECURSIVE RankInPatternOf(_, _, _)
RankInPatternOf(st, digits, terminals) ==
  IF terminals = <<>> THEN 0
  ELSE LET n == Len(terminals)
           strings == StringsOfGroup(st.nonterminals_[n], digits[n])
       IN (PositionIn(strings, terminals[n]) - 1)
            + Len(strings)
                * RankInPatternOf(st, digits, SubSeq(terminals, 1, n - 1))

\* The pattern manager of the structure with the counter at the digits
ManagerAt(st, d) ==
  [NewPatternManager(st) EXCEPT !.pattern_counter_.digit = d]

\* lookupAndSetPattern on a fresh manager for every test sequence, and
\* getPermutationRank at every counter state, tabulated
LookupAndSetPatternTable ==
  [r \in ManagerStructures |->
     [t \in TestTerminalSequences(loadStructure(r, One)) |->
        lookupAndSetPattern(NewPatternManager(loadStructure(r, One)), t)] @@ <<>>] @@ <<>>

PermutationRankTable ==
  [r \in ManagerStructures |->
     [d \in AllDigits(loadStructure(r, One)) |->
        getPermutationRank(ManagerAt(loadStructure(r, One), d))] @@ <<>>] @@ <<>>

\* C3: for a terminal sequence that parses, lookupAndSetPattern returns
\* index = permutationRank x stringsInPattern + rankInPattern (the
\* mixed-radix number of the terminals' indices in their groups, first
\* position most significant); the index lies in
\* [0, stringsInPattern x countPermutations); and no other terminal sequence
\* whose pattern canonicalises to the same pattern gets the same index
C3_IndexOfLookupAndSetPattern ==
  (pc = "manager" /\ result.op = "lookupAndSetPattern"
     /\ HasCanParse(result.ret.parse_status)) =>
    LET st == pcfg[1]
        digits == pattern_manager.pattern_counter_.digit
        strings_in_pattern ==
          ProdSeq([i \in 1..st.nonterminals_size_ |->
                     Len(StringsOfGroup(st.nonterminals_[i], digits[i]))])
        others == LookupAndSetPatternTable[st.representation_]
    IN /\ ~result.exit
       /\ \A i \in 1..st.nonterminals_size_ :
            \E k \in 1..Len(StringsOfGroup(st.nonterminals_[i], digits[i])) :
               StringsOfGroup(st.nonterminals_[i], digits[i])[k] = result.terminals[i]
       /\ result.ret.index
            = getPermutationRank(pattern_manager) * strings_in_pattern
                + RankInPatternOf(st, digits, result.terminals)
       /\ 0 <= result.ret.index
       /\ result.ret.index < strings_in_pattern * countPermutations(pattern_manager)
       /\ \A t \in DOMAIN others :
            (/\ t # result.terminals
             /\ HasCanParse(others[t].lookup_data.parse_status)
             /\ SamePermutationClass(st, others[t].pm.pattern_counter_.digit, digits))
              => others[t].lookup_data.index # result.ret.index

\* LELEL with "z", "b", "a": groups 3, 1, 0, the last of the six
\* permutations of the pattern (0, 1, 3); its strings number 1 x 2 x 22 and
\* z is the last of the 22 unseen strings, so the index is 5 x 44 + 21 x 2
C3_Witness ==
  /\ pc = "manager" /\ result.op = "lookupAndSetPattern"
  /\ pcfg[1].representation_ = LELEL
  /\ result.terminals = <<<<122>>, <<98>>, <<97>>>>
  /\ HasCanParse(result.ret.parse_status)
  /\ pattern_manager.pattern_counter_.digit = <<3, 1, 0>>
  /\ result.ret.index = 262

\* C6: getPermutationRank is 0 for a canonical pattern, below
\* countPermutations for every pattern, and on the patterns that
\* canonicalise to the same pattern it takes every value of
\* [0, countPermutations) exactly once, also when the positions of two
\* repeated nonterminals interleave
C6_PermutationRankIsBijection ==
  (pc = "manager" /\ result.op = "getPermutationRank") =>
    LET st == pcfg[1]
        digits == pattern_manager.pattern_counter_.digit
        class == {d \in AllDigits(st) : SamePermutationClass(st, d, digits)}
        rank == PermutationRankTable[st.representation_]
    IN /\ result.ret # ExitFailure
       /\ 0 <= result.ret /\ result.ret < result.permutations
       /\ CanonicalDigits(st, digits) => result.ret = 0
       /\ result.first = CanonicalDigits(st, digits)
       /\ rank[digits] = result.ret
       /\ \A d \in class : d # digits => rank[d] # result.ret
       /\ {rank[d] : d \in class} = 0..(result.permutations - 1)

\* DELEDEL at D-groups (2, 0), L-groups (3, 1): both repeated nonterminals
\* out of order, rank 3 of 4
C6_Witness ==
  /\ pc = "manager" /\ result.op = "getPermutationRank"
  /\ pcfg[1].representation_ = DELEDEL
  /\ pattern_manager.pattern_counter_.digit = <<2, 3, 0, 1>>
  /\ result.permutations = 4
  /\ result.ret = 3

\* C26: canonicalizePattern never exits; the counter it returns has the
\* bases of the pattern counter and, at the k-th position of each group id,
\* the k-th smallest of the digits the pattern counter holds at the
\* positions of that group id (so positions of a group that does not repeat
\* keep their digit); the returned counter passes checkFirstPermutation;
\* and the manager's own pattern counter is the one it was before the call
C26_CanonicalizeSortsWithinGroups ==
  (pc = "manager" /\ result.op = "canonicalizePattern") =>
    LET pm == pattern_manager
        digits == pm.pattern_counter_.digit
        positions(i) == {j \in 1..pm.structure_size_ : pm.group_ids_[j] = pm.group_ids_[i]}
    IN /\ result.ret # ExitedCounter
       /\ result.ret.base = pm.pattern_counter_.base
       /\ \A i \in 1..pm.structure_size_ :
            LET k == Cardinality({j \in positions(i) : j <= i})
                v == result.ret.digit[i]
            IN /\ Cardinality({j \in positions(i) : digits[j] < v}) < k
               /\ k <= Cardinality({j \in positions(i) : digits[j] <= v})
       /\ \A i \in 1..pm.structure_size_ :
            pm.group_counts_[pm.group_ids_[i]] = 1 => result.ret.digit[i] = digits[i]
       /\ checkFirstPermutation(pm, result.ret)
       /\ CanonicalDigits(pcfg[1], result.ret.digit)
       /\ result.counter = pm.pattern_counter_

\* DELEDEL at D-groups (2, 0), L-groups (3, 1): both groups are sorted, each
\* within its own positions
C26_Witness ==
  /\ pc = "manager" /\ result.op = "canonicalizePattern"
  /\ pcfg[1].representation_ = DELEDEL
  /\ pattern_manager.pattern_counter_.digit = <<2, 3, 0, 1>>
  /\ result.ret.digit = <<0, 1, 2, 3>>
  /\ result.counter.digit = <<2, 3, 0, 1>>

\* C27 as stated: among the counter states that canonicalise to the pattern
\* of the current one, the permutation rank is lower exactly where the
\* state comes earlier in the order in which increment visits the states
C27_RankOrderAsStated ==
  (pc = "manager" /\ result.op = "getPermutationRank") =>
    \E st \in {pcfg[1]}, digits \in {pattern_manager.pattern_counter_.digit} :
      \E base \in {BasesOfStructure(st)}, rank \in {PermutationRankTable[st.representation_]} :
        \A d \in {e \in AllDigits(st) : SamePermutationClass(st, e, digits)} :
           d # digits =>
             ((rank[d] < result.ret)
                <=> (ValueOfCounter(base, d) < ValueOfCounter(base, digits)))

\* C27: among the counter states that canonicalise to the pattern of the
\* current one, the permutation rank compares two states by the group of
\* lowest id at whose positions they differ, and there by the first such
\* position from the left: the state with the lower digit has the lower
\* rank. So the rank follows the order in which increment visits the states
\* whenever the first position at which two states differ belongs to that
\* group, in particular when one nonterminal only repeats
C27_RankOrderByLowestGroup ==
  (pc = "manager" /\ result.op = "getPermutationRank") =>
    \E st \in {pcfg[1]}, digits \in {pattern_manager.pattern_counter_.digit} :
      \E base \in {BasesOfStructure(st)}, rank \in {PermutationRankTable[st.representation_]},
         ids \in {pattern_manager.group_ids_} :
        \A d \in {e \in AllDigits(st) : SamePermutationClass(st, e, digits)} :
           d # digits =>
             LET differ == {i \in 1..Len(d) : d[i] # digits[i]}
                 g == CHOOSE h \in {ids[i] : i \in differ} :
                        \A i \in differ : h <= ids[i]
                 i0 == CHOOSE i \in differ :
                         ids[i] = g /\ \A j \in differ : ids[j] = g => i <= j
                 first == CHOOSE i \in differ : \A j \in differ : i <= j
             IN /\ (rank[d] < result.ret) <=> (d[i0] < digits[i0])
                /\ (ids[first] = g) =>
                     ((rank[d] < result.ret)
                        <=> (ValueOfCounter(base, d) < ValueOfCounter(base, digits)))

\* S E D E S E D E S at S-groups (0, 0, 1), D-groups (2, 0): rank 1, while
\* the state S (0, 1, 0), D (0, 2), which increment visits earlier, has
\* rank 2
C27_Witness ==
  /\ pc = "manager" /\ result.op = "getPermutationRank"
  /\ pcfg[1].representation_ = SEDESEDES
  /\ pattern_manager.pattern_counter_.digit = <<0, 2, 0, 0, 1>>
  /\ result.ret = 1
  /\ PermutationRankTable[SEDESEDES][<<0, 0, 1, 2, 0>>] = 2
  /\ ValueOfCounter(pattern_manager.pattern_counter_.base, <<0, 0, 1, 2, 0>>)
       < ValueOfCounter(pattern_manager.pattern_counter_.base, <<0, 2, 0, 0, 1>>)

(***************************************************************************)
(* PCFG::lookup and PCFG::lookupSum, one structure of the loop per step     *)
(***************************************************************************)
SES == <<ChS, 69, ChS>>
LookupGrammars ==
  {<<loadStructure(LEL, <<1, 2>>), loadStructure(<<ChL, ChL>>, <<1, 32>>),
     loadStructure(<<ChD>>, <<1, 4>>)>>,
   <<loadStructure(<<ChL, ChL>>, <<1, 32>>), loadStructure(LEL, <<1, 2>>),
     loadStructure(<<ChD>>, <<1, 4>>)>>,
   <<loadStructure(<<ChS>>, <<1, 2>>), loadStructure(<<ChL, ChL>>, <<1, 4>>),
     loadStructure(SES, <<1, 4>>)>>}

\* ab cd ba ax zz a 1 3 ! % !# %! A1 Ab a\x01b and the empty string
LookupInputs ==
  {<<97, 98>>, <<99, 100>>, <<98, 97>>, <<97, 120>>, <<122, 122>>, <<97>>,
   <<49>>, <<51>>, <<33>>, <<37>>, <<33, 35>>, <<37, 33>>, <<65, 49>>,
   <<65, 98>>, <<97, 1, 98>>, <<>>}

\* The values the never-assigned probability of the initial object may hold
IndeterminateProbabilities == {MinusOne, Zero, One}

InitLookup ==
  /\ NumberVarsUnused /\ TableVarsUnused /\ accurate_probabilities = Unused
  /\ CollectionVarsUnused /\ RandomVarsUnused
  /\ UnseenVarsUnused
  /\ pcfg \in LookupGrammars
  /\ inputstring \in LookupInputs
  /\ \E indeterminate \in IndeterminateProbabilities :
       LET s == InitialLookupState(indeterminate)
       IN /\ lookup_data = s.lookup_data
          /\ canParse = s.canParse
          /\ total_probability = s.total_probability
  /\ structure_lookups = <<>>
  /\ structure_index = 0
  /\ cutoff = Unused /\ pattern_manager = Unused /\ patterns_left = Unused
  /\ output = Unused /\ iterators = Unused
  /\ result = [op |-> "none"]
  /\ pc \in {"lookup", "lookupSum"}

\* one iteration of the loop over the structures
LookupInNextStructure ==
  /\ pc \in {"lookup", "lookupSum"}
  /\ structure_index < Len(pcfg)
  /\ \E s \in {lookupLoopBody(pcfg[structure_index + 1], inputstring,
                  [lookup_data |-> lookup_data, canParse |-> canParse,
                   total_probability |-> total_probability, exit |-> FALSE])} :
        /\ lookup_data' = s.lookup_data
        /\ canParse' = s.canParse
        /\ total_probability' = s.total_probability
        /\ structure_lookups' =
             Append(structure_lookups,
                    Structure_lookup(pcfg[structure_index + 1], inputstring).lookup_data)
        /\ pc' = IF s.exit THEN "exit" ELSE pc
  /\ structure_index' = structure_index + 1
  /\ UNCHANGED <<pcfg, cutoff, pattern_manager, patterns_left, output,
                 iterators, inputstring, unseenVars, result,
                 numberVars, tableVars, accurate_probabilities,
                 collectionVars, randomVars>>

\* return lookup_data
ReturnFromLookup ==
  /\ pc = "lookup"
  /\ structure_index >= Len(pcfg)
  /\ pc' = "lookupDone"
  /\ UNCHANGED <<genVars, lookupVars, unseenVars, result,
                 numberVars, tableVars, accurate_probabilities,
                 collectionVars, randomVars>>

\* lookupSum: fix the probability value, return lookup_data
ReturnFromLookupSum ==
  /\ pc = "lookupSum"
  /\ structure_index >= Len(pcfg)
  /\ lookup_data' = [lookup_data EXCEPT !.probability = total_probability]
  /\ pc' = "lookupSumDone"
  /\ UNCHANGED <<genVars, inputstring, canParse, total_probability,
                 structure_lookups, unseenVars, result,
                 numberVars, tableVars, accurate_probabilities,
                 collectionVars, randomVars>>

NextLookup ==
  \/ LookupInNextStructure
  \/ ReturnFromLookup
  \/ ReturnFromLookupSum

SpecLookup == InitLookup /\ [][NextLookup]_vars

\* Reference definitions: a string matches a structure class-wise when its
\* character classes are the structure's representation without the
\* breaks; the structure parses it when moreover every slice is a string of
\* some terminal group of its nonterminal
RECURSIVE SlicesOf(_, _)
SlicesOf(representations, str) ==
  IF representations = <<>> THEN <<>>
  ELSE <<SubSeq(str, 1, Len(Head(representations)))>>
         \o SlicesOf(Tail(representations),
                     SubSeq(str, Len(Head(representations)) + 1, Len(str)))

MatchesClassWise(st, str) ==
  convertStringToStructureRepresentation(StripBreakCharacterFromTerminal(str))
    = Concat(st.nonterminals_)

GroupIndexesOf(representation, terminal) ==
  {g \in 0..(getOrCreateNonterminal(representation).terminal_groups_size_ - 1) :
     \E k \in 1..Len(StringsOfGroup(representation, g)) :
        StringsOfGroup(representation, g)[k] = terminal}

StructureParses(st, str) ==
  /\ MatchesClassWise(st, str)
  /\ \A i \in 1..st.nonterminals_size_ :
       GroupIndexesOf(st.nonterminals_[i],
         SlicesOf(st.nonterminals_, StripBreakCharacterFromTerminal(str))[i]) # {}

RECURSIVE SumOfParseable(_)
SumOfParseable(lookups) ==
  IF lookups = <<>> THEN Zero
  ELSE LET rest == SumOfParseable(SubSeq(lookups, 1, Len(lookups) - 1))
           last == lookups[Len(lookups)]
       IN IF HasCanParse(last.parse_status) THEN PAdd(rest, last.probability)
          ELSE rest

RECURSIVE WithoutBreaks(_)
WithoutBreaks(str) ==
  IF str = <<>> THEN <<>>
  ELSE IF Head(str) = 1 THEN WithoutBreaks(Tail(str))
  ELSE <<Head(str)>> \o WithoutBreaks(Tail(str))

WithBreakAt(str, p) == SubSeq(str, 1, p) \o <<1>> \o SubSeq(str, p + 1, Len(str))

\* C14: Structure::lookup returns StructureNotFound, with probability -1
\* and index -1, exactly when the character classes of the input without
\* its 0x01 bytes differ from the concatenated representations of the
\* structure's nonterminals; otherwise the terminals it cuts are the
\* substrings aligned with the nonterminals and its result is the pattern
\* manager's for them; a 0x01 byte inserted anywhere leaves the result as
\* it is
C14_StructureNotFoundAndSlices ==
  pc \in {"lookup", "lookupSum", "lookupDone", "lookupSumDone"} =>
    \A k \in 1..Len(structure_lookups) :
       LET st == pcfg[k]
           unbroken == WithoutBreaks(inputstring)
           matches == [i \in 1..Len(unbroken) |-> ClassOf(unbroken[i])]
                        = Concat(st.nonterminals_)
           slices == SlicesOf(st.nonterminals_, unbroken)
       IN /\ structure_lookups[k].parse_status = kStructureNotFound <=> ~matches
          /\ ~matches => /\ structure_lookups[k].probability = MinusOne
                         /\ structure_lookups[k].index = -1
          /\ matches =>
               /\ splitIntoTerminalsLoop(st, unbroken,
                     convertStringToStructureRepresentation(unbroken),
                     0, 0, <<>>).terminals = slices
               /\ structure_lookups[k]
                    = lookupAndSetPattern(NewPatternManager(st), slices).lookup_data
          /\ \A p \in 0..Len(inputstring) :
               Structure_lookup(st, WithBreakAt(inputstring, p)).lookup_data
                 = structure_lookups[k]

\* "a\x01b" under LL and under LEL: both cut it into terminals of "ab" and
\* parse it
C14_Witness ==
  /\ pc = "lookupDone"
  /\ inputstring = <<97, 1, 98>>
  /\ \E k \in 1..Len(pcfg) :
       /\ pcfg[k].representation_ = <<ChL, ChL>>
       /\ structure_lookups[k].first_string_of_pattern = <<97, 98>>
  /\ \E k \in 1..Len(pcfg) :
       /\ pcfg[k].representation_ = LEL
       /\ HasCanParse(structure_lookups[k].parse_status)
       /\ structure_lookups[k].first_string_of_pattern = <<97, 1, 98>>
  /\ \E k \in 1..Len(pcfg) :
       structure_lookups[k].parse_status = kStructureNotFound

(***************************************************************************)
(* String enumeration: PCFG::generateStrings(cutoff, accurate_probabilities)*)
(* in both modes, one pattern or one string of Structure::generateStrings   *)
(* per step.                                                                *)
(***************************************************************************)
DED == <<ChD, 69, ChD>>
UED == <<ChU, 69, ChD>>
StringGrammars ==
  {<<loadStructure(DED, <<1, 2>>), loadStructure(<<ChD>>, <<1, 4>>),
     loadStructure(<<ChS>>, <<1, 4>>)>>,
   <<loadStructure(LEL, <<1, 2>>), loadStructure(<<ChL, ChL>>, <<1, 32>>)>>,
   <<loadStructure(<<ChL, ChL>>, <<1, 32>>), loadStructure(LEL, <<1, 2>>)>>,
   <<loadStructure(UED, <<1, 2>>), loadStructure(<<ChU>>, <<1, 2>>)>>,
   <<loadStructure(SES, One)>>}

StringCutoffs == {Zero, <<1, 512>>, <<1, 64>>}

InitStrings ==
  /\ NumberVarsUnused /\ TableVarsUnused
  /\ accurate_probabilities \in BOOLEAN
  /\ CollectionVarsUnused /\ RandomVarsUnused
  /\ LookupVarsUnused /\ UnseenVarsUnused
  /\ pcfg \in StringGrammars
  /\ cutoff \in StringCutoffs
  /\ structure_index = 0
  /\ pattern_manager = Unused
  /\ patterns_left = FALSE
  /\ output = <<>>
  /\ iterators = <<>>
  /\ result = [op |-> "none"]
  /\ pc = "generateStrings"

\* PCFG::generateStrings calls structures_[i].generateStrings(cutoff, true,
\* this) or structures_[i].generateStrings(cutoff): the pattern manager is
\* initialised
BeginStructureStrings ==
  /\ pc = "generateStrings"
  /\ structure_index < Len(pcfg)
  /\ pattern_manager' = NewPatternManager(pcfg[structure_index + 1])
  /\ patterns_left' = TRUE
  /\ pc' = "stringPatterns"
  /\ UNCHANGED <<pcfg, cutoff, structure_index, output, iterators, lookupVars,
                 unseenVars, result,
                 numberVars, tableVars, accurate_probabilities,
                 collectionVars, randomVars>>

\* pattern below the cutoff: intelligent skip
SkipStringsBelowCutoff ==
  /\ pc = "stringPatterns" /\ patterns_left
  /\ PLess(getPatternProbability(pattern_manager), cutoff)
  /\ LET r == intelligentSkipPatternCounter(pattern_manager)
     IN /\ pattern_manager' = r.pm
        /\ patterns_left' = r.ret
  /\ result' = [op |-> "intelligentSkip"]
  /\ UNCHANGED <<pcfg, cutoff, structure_index, output, iterators, lookupVars,
                 unseenVars, pc,
                 numberVars, tableVars, accurate_probabilities,
                 collectionVars, randomVars>>

\* pattern at or above the cutoff: open its string iterators
OpenStringIterators ==
  /\ pc = "stringPatterns" /\ patterns_left
  /\ ~PLess(getPatternProbability(pattern_manager), cutoff)
  /\ iterators' = getStringIterators(pattern_manager)
  /\ result' = [op |-> "getStringIterators"]
  /\ pc' = "strings"
  /\ UNCHANGED <<pcfg, cutoff, structure_index, pattern_manager,
                 patterns_left, output, lookupVars, unseenVars,
                 numberVars, tableVars, accurate_probabilities,
                 collectionVars, randomVars>>

\* one iteration of the loop over the strings of the pattern: build the
\* string; with accurate probabilities look it up with lookupSum and print
\* it if this pattern is its representative, otherwise print it with the
\* pattern probability; advance the iterators.  result records the string,
\* what this structure's own lookup returns for it and whether it was
\* printed.
GenerateString ==
  /\ pc = "strings"
  /\ LET st == pcfg[structure_index + 1]
         pattern_probability == getPatternProbability(pattern_manager)
         first_string_of_pattern == getCanonicalizedFirstStringOfPattern(pattern_manager)
         current_string ==
           Concat([i \in 1..st.nonterminals_size_ |-> iterators[i].current_string_])
     IN \E looked \in {IF accurate_probabilities
                        THEN PCFG_lookupSum(pcfg, current_string)
                        ELSE [exit |-> FALSE]},
           next \in {incrementIteratorsLoop(pattern_manager, iterators,
                                            st.nonterminals_size_ - 1)} :
        LET total_lookup == looked.lookup_data
            failed == /\ accurate_probabilities
                      /\ \/ looked.exit
                         \/ HasUnexpectedFailure(total_lookup.parse_status)
                         \/ ~HasCanParse(total_lookup.parse_status)
            printed == \/ ~accurate_probabilities
                       \/ /\ ~failed
                          /\ total_lookup.first_string_of_pattern = first_string_of_pattern
        IN
        /\ result' = [op |-> "string", current_string |-> current_string,
                      digits |-> pattern_manager.pattern_counter_.digit,
                      own_lookup |-> Structure_lookup(st, current_string).lookup_data,
                      printed |-> printed]
        /\ output' = IF printed
                     THEN Append(output,
                            [probability |-> IF accurate_probabilities
                                             THEN total_lookup.probability
                                             ELSE pattern_probability,
                             current_string |-> current_string,
                             structure_index |-> structure_index,
                             digits |-> pattern_manager.pattern_counter_.digit])
                     ELSE output
        /\ iterators' = IF failed THEN iterators ELSE next.iterators
        /\ pc' = IF failed THEN "stringsExit"
                 ELSE IF next.strings_left THEN "strings" ELSE "stringsEnd"
  /\ UNCHANGED <<pcfg, cutoff, structure_index, pattern_manager,
                 patterns_left, lookupVars, unseenVars,
                 numberVars, tableVars, accurate_probabilities,
                 collectionVars, randomVars>>

\* the first iterator has overflowed: free the iterators, next pattern
CloseStringIterators ==
  /\ pc = "stringsEnd"
  /\ LET r == incrementPatternCounter(pattern_manager)
     IN /\ pattern_manager' = r.pm
        /\ patterns_left' = r.ret
  /\ iterators' = <<>>
  /\ result' = [op |-> "incrementPatternCounter"]
  /\ pc' = "stringPatterns"
  /\ UNCHANGED <<pcfg, cutoff, structure_index, output, lookupVars, unseenVars,
                 numberVars, tableVars, accurate_probabilities,
                 collectionVars, randomVars>>

\* the counter has overflowed: Structure::generateStrings returns true
EndStructureStrings ==
  /\ pc = "stringPatterns" /\ ~patterns_left
  /\ structure_index' = structure_index + 1
  /\ pc' = "generateStrings"
  /\ UNCHANGED <<pcfg, cutoff, pattern_manager, patterns_left, output,
                 iterators, lookupVars, unseenVars, result,
                 numberVars, tableVars, accurate_probabilities,
                 collectionVars, randomVars>>

\* PCFG::generateStrings returns true
ReturnFromGenerateStrings ==
  /\ pc = "generateStrings"
  /\ structure_index >= Len(pcfg)
  /\ pc' = "stringsDone"
  /\ UNCHANGED <<genVars, lookupVars, unseenVars, result,
                 numberVars, tableVars, accurate_probabilities,
                 collectionVars, randomVars>>

NextStrings ==
  \/ BeginStructureStrings
  \/ SkipStringsBelowCutoff
  \/ OpenStringIterators
  \/ GenerateString
  \/ CloseStringIterators
  \/ EndStructureStrings
  \/ ReturnFromGenerateStrings

SpecStrings == InitStrings /\ [][NextStrings]_vars

\* Reference definitions for the claims on string generation: the canonical
\* form of a pattern, the first string of a pattern, the pattern a
\* structure produces a string from, and every string of the character
\* classes of a structure
CanonicalOf(st, d) ==
  CHOOSE c \in AllDigits(st) : SamePermutationClass(st, c, d) /\ CanonicalDigits(st, c)

FirstStringOfDigits(st, d) ==
  JoinWith([i \in 1..st.nonterminals_size_ |->
              StringsOfGroup(st.nonterminals_[i], d[i])[1]], 1)

DigitsOfString(st, str) ==
  [i \in 1..st.nonterminals_size_ |->
     CHOOSE g \in GroupIndexesOf(st.nonterminals_[i],
                                 SlicesOf(st.nonterminals_, str)[i]) : TRUE]

ClassAlphabet(c) ==
  IF c = ChL THEN 97..122
  ELSE IF c = ChU THEN 65..90
  ELSE IF c = ChD THEN 48..57
  ELSE {kGeneratorSymbols[i] : i \in 1..Len(kGeneratorSymbols)}

RECURSIVE StringsOfClasses(_)
StringsOfClasses(classes) ==
  IF classes = <<>> THEN {<<>>}
  ELSE {<<c>> \o rest : c \in ClassAlphabet(Head(classes)),
                        rest \in StringsOfClasses(Tail(classes))}

InStringEnumeration ==
  pc \in {"generateStrings", "stringPatterns", "strings", "stringsEnd",
          "stringsExit", "stringsDone"}

\* C4: every string a structure produces from a pattern P during string
\* generation is looked up by that structure with status CanParse and with
\* the first string of the canonicalised P (the groups' first strings
\* joined by 0x01) as pattern identifier
C4_LookupOfGeneratedString ==
  InStringEnumeration =>
    /\ pc # "stringsExit"
    /\ result.op = "string" =>
         LET st == pcfg[structure_index + 1]
         IN /\ HasCanParse(result.own_lookup.parse_status)
            /\ result.own_lookup.first_string_of_pattern
                 = FirstStringOfDigits(st, CanonicalOf(st, result.digits))
            /\ DigitsOfString(st, result.current_string) = result.digits

\* UED, pattern U-group 3 (unseen), D-group 1: the string "Z2" is looked up
\* with the identifier "E\x012" (first unseen letter, upper-cased)
C4_Witness ==
  /\ pc = "stringsEnd" /\ result.op = "string"
  /\ pcfg[structure_index + 1].representation_ = UED
  /\ result.current_string = <<90, 50>>
  /\ result.digits = <<3, 1>>
  /\ result.own_lookup.first_string_of_pattern = <<69, 1, 50>>

\* the structures that produce the string from a pattern at or above the
\* cutoff, and the one lookupSum selects: highest pattern probability,
\* earliest on a tie
ProducersAboveCutoff(str) ==
  {k \in 1..Len(pcfg) :
     /\ StructureParses(pcfg[k], str)
     /\ PLeq(cutoff, ProbabilityOfDigits(pcfg[k], DigitsOfString(pcfg[k], str)))}

RepresentativeOf(str) ==
  LET producers == {k \in 1..Len(pcfg) : StructureParses(pcfg[k], str)}
      p(k) == ProbabilityOfDigits(pcfg[k], DigitsOfString(pcfg[k], str))
  IN CHOOSE k \in producers :
       \A m \in producers : PLeq(p(m), p(k)) /\ (m < k => PLess(p(m), p(k)))

\* C7: in accurate-probability mode, when generateStrings has returned, the
\* strings printed are exactly the strings some structure produces from a
\* pattern of probability >= cutoff, each printed once, by the structure
\* lookupSum selects for it and from the pattern that produces it there;
\* and at no time has a string been printed twice
C7_EachStringPrintedOnce ==
  (InStringEnumeration /\ accurate_probabilities) =>
    /\ (result.op = "string" /\ result.printed) =>
         \A i \in 1..(Len(output) - 1) :
            output[i].current_string # output[Len(output)].current_string
    /\ pc = "stringsDone" =>
         /\ {output[i].current_string : i \in 1..Len(output)}
              = {str \in UNION {StringsOfClasses(Concat(pcfg[k].nonterminals_)) :
                                  k \in 1..Len(pcfg)} :
                   ProducersAboveCutoff(str) # {}}
         /\ \A i \in 1..Len(output) :
              LET k == RepresentativeOf(output[i].current_string)
              IN /\ output[i].structure_index + 1 = k
                 /\ output[i].digits = DigitsOfString(pcfg[k], output[i].current_string)

\* LL before LEL with cutoff 1/64: "ab" has probability 1/64 under both and
\* was printed by LL only; "ba" (1/128 under LL, 1/64 under LEL) by LEL from
\* the non-canonical pattern (1, 0); "cd" (1/128 under LL, 3/512 under LEL)
\* not at all
C7_Witness ==
  /\ pc = "stringsDone" /\ accurate_probabilities
  /\ cutoff = <<1, 64>>
  /\ pcfg[1].representation_ = <<ChL, ChL>> /\ Len(pcfg) = 2
  /\ \E i \in 1..Len(output) :
       output[i].current_string = <<97, 98>> /\ output[i].structure_index = 0
  /\ \E i \in 1..Len(output) :
       /\ output[i].current_string = <<98, 97>> /\ output[i].structure_index = 1
       /\ output[i].digits = <<1, 0>>
  /\ \A i \in 1..Len(output) : output[i].current_string # <<99, 100>>

\* The strings of a pattern in order: every combination of one string per
\* terminal group, the last position varying fastest
RECURSIVE ProductOfGroups(_)
ProductOfGroups(groups) ==
  IF groups = <<>> THEN << <<>> >>
  ELSE LET rest == ProductOfGroups(Tail(groups))
           first == Head(groups)
       IN [k \in 1..(Len(first) * Len(rest)) |->
             first[((k - 1) \div Len(rest)) + 1] \o rest[((k - 1) % Len(rest)) + 1]]

StringsOfPattern(st, d) ==
  ProductOfGroups([i \in 1..st.nonterminals_size_ |->
                     StringsOfGroup(st.nonterminals_[i], d[i])])

\* the lines printed so far for the pattern the counter is on
LinesOfCurrentPattern ==
  {i \in 1..Len(output) :
     /\ output[i].structure_index = structure_index
     /\ output[i].digits = pattern_manager.pattern_counter_.digit}

\* C15: in non-accurate mode the strings printed for a visited pattern are
\* the last lines of the output and are, in order, the combinations of one
\* string per terminal group with the last nonterminal varying fastest:
\* a prefix of them while the pattern is being generated, all of them (the
\* product of the group sizes, none repeated) when its first iterator has
\* overflowed; each line carries the pattern probability
C15_StringsAreProductOfGroups ==
  (InStringEnumeration /\ ~accurate_probabilities /\ pc \in {"strings", "stringsEnd"}) =>
    \E strings \in {StringsOfPattern(pcfg[structure_index + 1],
                                      pattern_manager.pattern_counter_.digit)} :
      LET n == Cardinality(LinesOfCurrentPattern)
          first == Len(output) - n
      IN /\ LinesOfCurrentPattern = (first + 1)..Len(output)
         /\ n <= Len(strings)
         /\ \A k \in 1..n :
              /\ output[first + k].current_string = strings[k]
              /\ output[first + k].probability = getPatternProbability(pattern_manager)
         /\ pc = "stringsEnd" => n = Len(strings)
         /\ pc = "strings" => n < Len(strings)
         /\ Cardinality({strings[k] : k \in 1..Len(strings)}) = Len(strings)
         /\ Len(strings)
              = ProdSeq([i \in 1..Len(pattern_manager.pattern_counter_.digit) |->
                   Len(StringsOfGroup(pcfg[structure_index + 1].nonterminals_[i],
                                      pattern_manager.pattern_counter_.digit[i]))])

\* D E D, pattern (1, 2) in non-accurate mode: the D group 1 holds "2", the
\* unseen D group 2 the eight other digits; the eight strings "20", "23",
\* ... are printed
C15_Witness ==
  /\ pc = "stringsEnd" /\ accurate_probabilities = FALSE
  /\ pcfg[structure_index + 1].representation_ = DED
  /\ pattern_manager.pattern_counter_.digit = <<1, 2>>
  /\ Cardinality(LinesOfCurrentPattern) = 8
  /\ output[Len(output) - 7].current_string = <<50, 48>>
  /\ output[Len(output)].current_string = <<50, 57>>

(***************************************************************************)
(* MixedRadixNumber on its own: a number of 1..MaxNonterminals positions    *)
(* with bases 1..MaxRadix, and every public operation applied in any order. *)
(***************************************************************************)
MaxRadix == 3

Radices == UNION {[1..n -> 1..MaxRadix] : n \in 1..MaxNonterminals}

\* MixedRadixNumber(radices, size)
InitNumber ==
  /\ GenVarsUnused /\ LookupVarsUnused /\ UnseenVarsUnused /\ TableVarsUnused
  /\ accurate_probabilities = Unused
  /\ CollectionVarsUnused /\ RandomVarsUnused
  /\ \E radices \in Radices :
       /\ number = MixedRadixNumber(radices)
       /\ visited = <<MixedRadixNumber(radices).digit>>
  /\ result = [op |-> "none"]
  /\ pc = "number"

\* clear()
ClearNumber ==
  /\ pc \in {"number", "overflowed"}
  /\ number' = MixedRadixNumber_clear(number)
  /\ visited' = <<MixedRadixNumber_clear(number).digit>>
  /\ result' = [op |-> "clear"]
  /\ pc' = "number"
  /\ UNCHANGED <<genVars, lookupVars, unseenVars, tableVars, accurate_probabilities,
                 collectionVars, randomVars>>

\* increment(); visited is kept while nothing but increment() has been
\* called since clear() and is emptied otherwise
IncrementNumber ==
  /\ pc \in {"number", "overflowed"}
  /\ \E r \in {MixedRadixNumber_increment(number)} :
       /\ number' = r.number
       /\ visited' = IF pc = "overflowed" \/ visited = <<>> THEN <<>>
                     ELSE IF r.ret THEN Append(visited, r.number.digit)
                     ELSE visited
       /\ result' = [op |-> "increment", before |-> number, ret |-> r.ret]
       /\ pc' = IF r.ret THEN "number" ELSE "overflowed"
  /\ UNCHANGED <<genVars, lookupVars, unseenVars, tableVars, accurate_probabilities,
                 collectionVars, randomVars>>

\* intelligentSkip()
IntelligentSkipNumber ==
  /\ pc \in {"number", "overflowed"}
  /\ \E r \in {MixedRadixNumber_intelligentSkip(number)} :
       /\ number' = r.number
       /\ result' = [op |-> "intelligentSkip", before |-> number, ret |-> r.ret]
       /\ pc' = IF r.ret THEN "number" ELSE "overflowed"
  /\ visited' = <<>>
  /\ UNCHANGED <<genVars, lookupVars, unseenVars, tableVars, accurate_probabilities,
                 collectionVars, randomVars>>

\* setPlace(place, value), also with a place or a value out of range
SetPlaceOfNumber ==
  /\ pc \in {"number", "overflowed"}
  /\ \E place \in 0..Len(number.digit), value \in 0..MaxRadix :
       \E r \in {setPlace(number, place, value)} :
          /\ number' = r.number
          /\ result' = [op |-> "setPlace", ret |-> r.ret]
  /\ visited' = <<>>
  /\ pc' = "number"
  /\ UNCHANGED <<genVars, lookupVars, unseenVars, tableVars, accurate_probabilities,
                 collectionVars, randomVars>>

NextNumber ==
  \/ ClearNumber
  \/ IncrementNumber
  \/ IntelligentSkipNumber
  \/ SetPlaceOfNumber

SpecNumber == InitNumber /\ [][NextNumber]_vars

\* Reference definitions: the valid digit vectors of the bases and the
\* value of one in mixed radix, last position least significant
DigitsOfBases(base) ==
  {d \in [1..Len(base) -> 0..(MaxRadix + 1)] : \A i \in 1..Len(base) : d[i] < base[i]}

RECURSIVE ValueOfDigits(_, _)
ValueOfDigits(base, d) ==
  IF d = <<>> THEN 0
  ELSE d[Len(d)]
         + base[Len(d)] * ValueOfDigits(SubSeq(base, 1, Len(d) - 1),
                                        SubSeq(d, 1, Len(d) - 1))

DigitsAllAtLeast(t, d) == \A i \in 1..Len(d) : t[i] >= d[i]

\* C12: intelligentSkip moves forward and skips no state that could have a
\* higher probability: every state strictly between the state before and
\* the state after has every digit >= the digit before, and when it
\* reports overflow so has every state after the state before
C12_SkipPassesNoBetterState ==
  (pc \in {"number", "overflowed"} /\ result.op = "intelligentSkip") =>
    LET base == number.base
        s == result.before.digit
    IN IF result.ret
       THEN /\ ValueOfDigits(base, s) < ValueOfDigits(base, number.digit)
            /\ \A t \in DigitsOfBases(base) :
                 (/\ ValueOfDigits(base, s) < ValueOfDigits(base, t)
                  /\ ValueOfDigits(base, t) < ValueOfDigits(base, number.digit))
                   => DigitsAllAtLeast(t, s)
       ELSE \A t \in DigitsOfBases(base) :
              ValueOfDigits(base, s) < ValueOfDigits(base, t)
                => DigitsAllAtLeast(t, s)

\* bases 3, 3, 3: from 0 1 0 the skip passes 0 1 1 .. 0 2 2 and stops at
\* 1 0 0
C12_Witness ==
  /\ pc = "number" /\ result.op = "intelligentSkip" /\ result.ret
  /\ number.base = <<3, 3, 3>>
  /\ result.before.digit = <<0, 1, 0>>
  /\ number.digit = <<1, 0, 0>>

\* C13: from the cleared state, repeated increment takes the number through
\* every valid digit vector once, in ascending mixed-radix order (last
\* position least significant), and returns false exactly after the
\* product of the bases states
C13_IncrementVisitsEveryState ==
  (pc \in {"number", "overflowed"} /\ visited # <<>>) =>
    LET base == number.base
    IN /\ \A k \in 1..Len(visited) :
            /\ visited[k] \in DigitsOfBases(base)
            /\ ValueOfDigits(base, visited[k]) = k - 1
       /\ pc = "number" => number.digit = visited[Len(visited)]
       /\ result.op = "increment" =>
            (result.ret <=> ValueOfDigits(base, result.before.digit) + 1
                              < ProdSeq(base))
       /\ pc = "overflowed" =>
            /\ ~result.ret
            /\ Len(visited) = ProdSeq(base)
            /\ {visited[k] : k \in 1..Len(visited)} = DigitsOfBases(base)

\* bases 3, 2, 3: the 18 states have been visited and increment has
\* returned false
C13_Witness ==
  /\ pc = "overflowed" /\ result.op = "increment"
  /\ number.base = <<3, 2, 3>>
  /\ Len(visited) = 18
  /\ visited[18] = <<2, 1, 2>>

\* The states of C19: the k >= 1 least-significant digits at their maximum,
\* the next more-significant digit below its maximum
TrailingDigitsAtMaximum(n) ==
  \E k \in 1..(Len(n.digit) - 1) :
     /\ \A i \in (Len(n.digit) - k + 1)..Len(n.digit) : n.digit[i] = n.base[i] - 1
     /\ n.digit[Len(n.digit) - k] < n.base[Len(n.digit) - k] - 1

MaxTableLines == 3

TableProbabilities == {<<1, 2>>, <<3, 8>>, <<1, 4>>, <<1, 8>>}
TableKeys == TableProbabilities \cup {One, <<3, 16>>, <<1, 16>>}

\* a number in base 10, as the table holds it
RECURSIVE DecimalString(_)
DecimalString(n) ==
  IF n < 10 THEN <<48 + n>> ELSE DecimalString(n \div 10) \o <<48 + (n % 10)>>

\* the pattern identifier and the guess number on the i-th line: identifiers
\* "a", "22", "3\x01c", "d", "55", ...; guess numbers 1, 13, 33, 61, ...
TablePattern(i) ==
  IF i % 3 = 1 THEN <<96 + i>>
  ELSE IF i % 3 = 2 THEN <<48 + i, 48 + i>>
  ELSE <<48 + i, 1, 96 + i>>

TableGuessNumber(i) == 4 * i * i - 3

TableLine(i, p) ==
  [probability |-> p, guess_number |-> DecimalString(TableGuessNumber(i)),
   pattern_string |-> TablePattern(i), total_count |-> FALSE]

TotalCountLine(n) ==
  [probability |-> Zero, guess_number |-> DecimalString(TableGuessNumber(n + 1)),
   pattern_string |-> <<>>, total_count |-> TRUE]

\* tables of 1..MaxTableLines data lines in non-increasing probability
TableFiles ==
  UNION {{[i \in 1..(n + 1) |->
             IF i <= n THEN TableLine(i, ps[i]) ELSE TotalCountLine(n)] :
          ps \in {qs \in [1..n -> TableProbabilities] :
                    \A i \in 1..(n - 1) : ~PLess(qs[i], qs[i + 1])}} :
         n \in 1..MaxTableLines}

\* the bytes of a line: "%a" prints 2^-k as 0x1p-k and 3*2^-k as 0x1.8p-k;
\* the last line is "Total count<TAB>number<LF>"
LineSize(line) ==
  IF line.total_count THEN 12 + Len(line.guess_number) + 1
  ELSE (IF line.probability[1] = 1 THEN 6 ELSE 8) + 1 + Len(line.guess_number)
         + 1 + Len(line.pattern_string) + 1

\* offset of the first byte of line i (i = Len + 1: the size of the file)
LineStart(lines, i) == SumSeq([k \in 1..(i - 1) |-> LineSize(lines[k])])

FileSize(lines) == LineStart(lines, Len(lines) + 1)

\* the line that starts at offset pos, 0 when none does
LineAt(lines, pos) ==
  IF \E i \in 1..Len(lines) : LineStart(lines, i) = pos
  THEN CHOOSE i \in 1..Len(lines) : LineStart(lines, i) = pos
  ELSE 0

\* is the byte at offset p a line feed
ByteIsNewline(lines, p) ==
  \E i \in 1..Len(lines) : LineStart(lines, i + 1) - 1 = p

\* fgetc at the start of a line: 'T' on the total line, '0' on a data line
PeekCharacter(lines, pos) ==
  IF LineAt(lines, pos) = 0 THEN 0
  ELSE IF lines[LineAt(lines, pos)].total_count THEN 84 ELSE 48

\* ReadLookupTableLine at offset pos: the fields of the data line that
\* starts there and the offset after it; false on the total line, whose
\* probability field does not parse to a value in (0, 1]
ReadLookupTableLine(lines, pos) ==
  IF LineAt(lines, pos) = 0 \/ lines[LineAt(lines, pos)].total_count
  THEN [ret |-> FALSE, position |-> pos]
  ELSE [ret |-> TRUE,
        probability |-> lines[LineAt(lines, pos)].probability,
        guess_number |-> lines[LineAt(lines, pos)].guess_number,
        pattern_string |-> lines[LineAt(lines, pos)].pattern_string,
        position |-> LineStart(lines, LineAt(lines, pos) + 1)]

\* RewindOneLine, the loop: p is the offset fgetc reads
RECURSIVE RewindOneLineLoop(_, _)
RewindOneLineLoop(lines, p) ==
  IF ByteIsNewline(lines, p) THEN [position |-> p + 1, ret |-> TRUE]
  ELSE IF p - 1 < 0 THEN [position |-> 0, ret |-> FALSE]
  ELSE RewindOneLineLoop(lines, p - 1)

\* RewindOneLine without the step back over the byte before the position
RewindOneLine_NoStepBack(lines, pos) ==
  IF pos - 1 < 0 THEN [position |-> 0, ret |-> FALSE]
  ELSE RewindOneLineLoop(lines, pos - 1)

\* RewindOneLine from offset pos
RewindOneLine(lines, pos) ==
  IF pos - 2 < 0 THEN [position |-> 0, ret |-> FALSE]
  ELSE RewindOneLineLoop(lines, pos - 2)

\* FindLastProbability: the probability on the second-to-last line, or exit
FindLastProbability(lines) ==
  Only({IF ~r1.ret \/ PeekCharacter(lines, r1.position) # 84
        THEN [exit |-> TRUE]
        ELSE Only({IF ~r2.ret \/ PeekCharacter(lines, r2.position) # 48
                   THEN [exit |-> TRUE]
                   ELSE [exit |-> FALSE,
                         probability |-> ReadLookupTableLine(lines, r2.position).probability,
                         position |-> ReadLookupTableLine(lines, r2.position).position] :
                   r2 \in {RewindOneLine(lines, r1.position)}}) :
        r1 \in {RewindOneLine(lines, FileSize(lines) - 1)}})

\* mpz_set_str(x, str, 10): the values x can hold afterwards.  A string of
\* decimal digits sets x to its value; on any other string the call fails
\* and x is left as it was or cleared
RECURSIVE ParseDecimal(_)
ParseDecimal(str) ==
  IF str = <<>> THEN 0
  ELSE 10 * ParseDecimal(SubSeq(str, 1, Len(str) - 1)) + (str[Len(str)] - 48)

mpz_set_str(x, str) ==
  IF str # <<>> /\ \A k \in 1..Len(str) : IsDigit(str[k])
  THEN {ParseDecimal(str)}
  ELSE {x, 0}

\* the in-pattern ranks LookupGuessNumbers adds the table index to
TableRanks == {0, 3}

InitTable ==
  /\ GenVarsUnused /\ LookupVarsUnused /\ UnseenVarsUnused /\ NumberVarsUnused
  /\ accurate_probabilities = Unused
  /\ CollectionVarsUnused /\ RandomVarsUnused
  /\ \E lines \in TableFiles : lookupFile = [lines |-> lines, position |-> 0]
  /\ \E key \in TableKeys :
       \/ search = [op |-> "BinarySearchLookupTable", key |-> key,
                    patternkey |-> <<>>, bias_index |-> 0, index |-> 0,
                    low |-> 0, high |-> 0, width |-> 0, steps |-> 0,
                    return_status |-> 0, read_probability |-> key,
                    exit_in |-> "none",
                    lookup_data |-> [index |-> -1, next_index |-> -1,
                                     parse_status |-> 0]]
       \/ \E i \in 1..(MaxTableLines + 1), bias_index \in 0..2, rank \in TableRanks :
            search = [op |-> "TableLookup", key |-> key,
                      patternkey |-> TablePattern(i), bias_index |-> bias_index,
                      index |-> rank,
                      low |-> 0, high |-> 0, width |-> 0, steps |-> 0,
                      return_status |-> 0, read_probability |-> key,
                      exit_in |-> "none",
                      lookup_data |-> [index |-> -1, next_index |-> -1,
                                       parse_status |-> 0]]
  /\ result = [op |-> "none"]
  /\ pc = "table"

\* TableLookup up to the call of BinarySearchLookupTable
BeginTableLookup ==
  /\ pc = "table" /\ search.op = "TableLookup"
  /\ \E last \in {FindLastProbability(lookupFile.lines)} :
       IF last.exit
       THEN /\ pc' = "exit"
            /\ search' = [search EXCEPT !.exit_in = "FindLastProbability"]
            /\ UNCHANGED lookupFile
       ELSE /\ lookupFile' = [lookupFile EXCEPT !.position = last.position]
            /\ IF PLess(search.key, last.probability)
               THEN /\ search' = [search EXCEPT !.lookup_data.parse_status = kBeyondCutoff]
                    /\ pc' = "tableReturned"
               ELSE /\ pc' = "binarySearch"
                    /\ UNCHANGED search
  /\ UNCHANGED <<genVars, lookupVars, unseenVars, numberVars,
                 accurate_probabilities, result,
                 collectionVars, randomVars>>

\* BinarySearchLookupTable up to its loop: low, high and the two checks
BeginBinarySearch ==
  /\ \/ pc = "binarySearch"
     \/ pc = "table" /\ search.op = "BinarySearchLookupTable"
  /\ \E lines \in {lookupFile.lines} :
     \E r1 \in {RewindOneLine(lines, FileSize(lines) - 1)} :
     \E r2 \in {RewindOneLine(lines, r1.position - 1)} :
     \E first \in {ReadLookupTableLine(lines, 0)} :
     \E last \in {ReadLookupTableLine(lines, r2.position)} :
       IF ~r1.ret \/ r1.position - 1 < 0 \/ ~first.ret
       THEN /\ pc' = "exit"
            /\ search' = [search EXCEPT !.exit_in = "BinarySearchLookupTable"]
            /\ lookupFile' = [lookupFile EXCEPT !.position = r1.position]
       ELSE IF PLess(first.probability, search.key)
       THEN /\ pc' = "searchReturned"
            /\ search' = [search EXCEPT !.high = r1.position - 1,
                                        !.return_status = kUnexpectedFailure]
            /\ lookupFile' = [lookupFile EXCEPT !.position = first.position]
       ELSE IF ~r2.ret \/ ~last.ret
       THEN /\ pc' = "exit"
            /\ search' = [search EXCEPT !.high = r1.position - 1,
                                        !.exit_in = "BinarySearchLookupTable"]
            /\ lookupFile' = [lookupFile EXCEPT !.position = r2.position]
       ELSE /\ lookupFile' = [lookupFile EXCEPT !.position = last.position]
            /\ IF PLess(search.key, last.probability)
               THEN /\ pc' = "searchReturned"
                    /\ search' = [search EXCEPT !.high = r1.position - 1,
                                                !.return_status = kBeyondCutoff]
               ELSE /\ pc' = "searchLoop"
                    /\ search' = [search EXCEPT !.high = r1.position - 1]
  /\ UNCHANGED <<genVars, lookupVars, unseenVars, numberVars,
                 accurate_probabilities, result,
                 collectionVars, randomVars>>

\* one iteration of the loop of BinarySearchLookupTable
BinarySearchStep ==
  /\ pc = "searchLoop" /\ search.low <= search.high
  /\ \E lines \in {lookupFile.lines} :
     \E mid \in {((search.high - search.low) \div 2) + search.low} :
     \E midpos \in {RewindOneLine(lines, mid).position} :
     \E at_midpos \in {ReadLookupTableLine(lines, midpos)} :
     \E previous \in {ReadLookupTableLine(lines,
                         RewindOneLine(lines, midpos - 1).position)} :
       IF ~at_midpos.ret
       THEN /\ pc' = "exit"
            /\ search' = [search EXCEPT !.exit_in = "BinarySearchLookupTable"]
            /\ lookupFile' = [lookupFile EXCEPT !.position = midpos]
       ELSE IF PEq(at_midpos.probability, search.key)
       THEN IF midpos > 0 /\ ~previous.ret
            THEN /\ pc' = "exit"
                 /\ search' = [search EXCEPT !.exit_in = "BinarySearchLookupTable"]
                 /\ lookupFile' = [lookupFile EXCEPT !.position = previous.position]
            ELSE IF midpos > 0 /\ PEq(previous.probability, at_midpos.probability)
            THEN /\ pc' = "searchLoop"
                 /\ search' = [search EXCEPT !.high = midpos - 1,
                                             !.width = search.high - search.low,
                                             !.steps = @ + 1]
                 /\ lookupFile' = [lookupFile EXCEPT !.position = previous.position]
            ELSE /\ pc' = "searchReturned"
                 /\ search' = [search EXCEPT !.return_status = kCanParse]
                 /\ lookupFile' = [lookupFile EXCEPT !.position = midpos]
       ELSE IF PLess(search.key, at_midpos.probability)
       THEN /\ pc' = "searchLoop"
            /\ search' = [search EXCEPT !.low = at_midpos.position,
                                        !.width = search.high - search.low,
                                        !.steps = @ + 1]
            /\ lookupFile' = [lookupFile EXCEPT !.position = at_midpos.position]
       ELSE /\ pc' = "searchLoop"
            /\ search' = [search EXCEPT !.high = midpos - 1,
                                        !.width = search.high - search.low,
                                        !.steps = @ + 1]
            /\ lookupFile' = [lookupFile EXCEPT !.position = at_midpos.position]
  /\ UNCHANGED <<genVars, lookupVars, unseenVars, numberVars,
                 accurate_probabilities, result,
                 collectionVars, randomVars>>

\* the loop ends without a match
BinarySearchNotFound ==
  /\ pc = "searchLoop" /\ search.low > search.high
  /\ search' = [search EXCEPT !.return_status = kUnexpectedFailure]
  /\ pc' = "searchReturned"
  /\ UNCHANGED <<genVars, lookupVars, unseenVars, numberVars, lookupFile,
                 accurate_probabilities, result,
                 collectionVars, randomVars>>

\* TableLookup after BinarySearchLookupTable has returned
AfterBinarySearch ==
  /\ pc = "searchReturned" /\ search.op = "TableLookup"
  /\ IF HasCanParse(search.return_status)
     THEN /\ pc' = "scan"
          /\ search' = [search EXCEPT !.read_probability = search.key]
     ELSE /\ pc' = "tableReturned"
          /\ search' = [search EXCEPT !.lookup_data.parse_status = search.return_status]
  /\ UNCHANGED <<genVars, lookupVars, unseenVars, numberVars, lookupFile,
                 accurate_probabilities, result,
                 collectionVars, randomVars>>

\* TableLookup, one iteration of the loop over the lines of the key's
\* probability (the test of the loop included)
ScanLine ==
  /\ pc = "scan"
  /\ \E lines \in {lookupFile.lines} :
     \E line \in {ReadLookupTableLine(lines, lookupFile.position)} :
     \E next_line \in {ReadLookupTableLine(lines, line.position)} :
       IF \/ ~PEq(search.read_probability, search.key)
          \/ PeekCharacter(lines, lookupFile.position) = 84
       THEN /\ pc' = "tableReturned"
            /\ search' = [search EXCEPT !.lookup_data.parse_status = kUnexpectedFailure]
            /\ lookupFile' =
                 IF PEq(search.read_probability, search.key)
                 THEN [lookupFile EXCEPT !.position = @ + 1]
                 ELSE lookupFile
       ELSE IF ~line.ret
       THEN /\ pc' = "exit"
            /\ search' = [search EXCEPT !.exit_in = "TableLookup"]
            /\ UNCHANGED lookupFile
       ELSE IF search.patternkey # line.pattern_string
       THEN /\ pc' = "scan"
            /\ search' = [search EXCEPT !.read_probability = line.probability]
            /\ lookupFile' = [lookupFile EXCEPT !.position = line.position]
       ELSE IF PeekCharacter(lines, line.position) = 84
       THEN /\ pc' = "tableReturned"
            /\ search' = [search EXCEPT
                 !.read_probability = line.probability,
                 !.lookup_data = [index |-> ParseDecimal(line.guess_number),
                                  next_index |-> -1,
                                  parse_status |-> kCanParse]]
            /\ lookupFile' = [lookupFile EXCEPT !.position = line.position + 1]
       ELSE IF ~next_line.ret
       THEN /\ pc' = "exit"
            /\ search' = [search EXCEPT !.exit_in = "TableLookup"]
            /\ lookupFile' = [lookupFile EXCEPT !.position = line.position]
       ELSE /\ pc' = "tableReturned"
            /\ \E next_index \in mpz_set_str(-1, next_line.pattern_string) :
                 search' = [search EXCEPT
                   !.read_probability = line.probability,
                   !.lookup_data = [index |-> ParseDecimal(line.guess_number),
                                    next_index |-> next_index,
                                    parse_status |-> kCanParse]]
            /\ lookupFile' = [lookupFile EXCEPT !.position = next_line.position]
  /\ UNCHANGED <<genVars, lookupVars, unseenVars, numberVars,
                 accurate_probabilities, result,
                 collectionVars, randomVars>>

\* LookupGuessNumbers, main: the index reported for the password from the
\* table lookup and the bias
ReportGuessNumber ==
  /\ pc = "tableReturned"
  /\ result' =
       IF HasCanParse(search.lookup_data.parse_status)
       THEN [op |-> "LookupGuessNumbers", parse_status |-> kCanParse,
             index |-> IF search.bias_index = 0
                       THEN search.index + search.lookup_data.index
                       ELSE IF search.bias_index = 1
                       THEN search.lookup_data.next_index
                       ELSE search.lookup_data.index]
       ELSE [op |-> "LookupGuessNumbers",
             parse_status |-> search.lookup_data.parse_status,
             index |-> search.index]
  /\ pc' = "reported"
  /\ UNCHANGED <<genVars, lookupVars, unseenVars, numberVars, tableVars,
                 accurate_probabilities,
                 collectionVars, randomVars>>

NextTable ==
  \/ BeginTableLookup
  \/ BeginBinarySearch
  \/ BinarySearchStep
  \/ BinarySearchNotFound
  \/ AfterBinarySearch
  \/ ScanLine
  \/ ReportGuessNumber

SpecTable == InitTable /\ [][NextTable]_vars


InTable == pc \in {"table", "binarySearch", "searchLoop", "searchReturned",
                   "scan", "tableReturned", "reported", "exit"}

DataLines == 1..(Len(lookupFile.lines) - 1)

\* the data lines whose probability is the key
LinesOfKey == {i \in DataLines : PEq(lookupFile.lines[i].probability, search.key)}

\* what BinarySearchLookupTable is to return, and where it is to leave the
\* file, on a sorted table
BinarySearchPostcondition ==
  /\ pc = "searchReturned" =>
       /\ LinesOfKey # {} =>
            /\ search.return_status = kCanParse
            /\ \E i \in LinesOfKey :
                 /\ \A j \in LinesOfKey : i <= j
                 /\ lookupFile.position = LineStart(lookupFile.lines, i)
       /\ PLess(search.key, lookupFile.lines[Len(lookupFile.lines) - 1].probability)
            => search.return_status = kBeyondCutoff
       /\ (\/ PLess(lookupFile.lines[1].probability, search.key)
           \/ /\ LinesOfKey = {}
              /\ ~PLess(search.key,
                        lookupFile.lines[Len(lookupFile.lines) - 1].probability))
            => search.return_status = kUnexpectedFailure
  \* every iteration of the loop narrows high - low, so the loop ends
  /\ (pc = "searchLoop" /\ search.steps > 0)
       => search.high - search.low < search.width

\* C16 as stated: on every sorted table BinarySearchLookupTable returns, with
\* CanParse and the file at the first line of the key's probability, with
\* BeyondCutoff when the key is below the last data line's probability, with
\* UnexpectedFailure when it is above the first line's or on no line
C16_BinarySearchAsStated ==
  InTable =>
    /\ search.exit_in # "BinarySearchLookupTable"
    /\ BinarySearchPostcondition

\* C16 on tables of two or more data lines: BinarySearchLookupTable never
\* exits and returns as stated
C16_BinarySearchOnTwoOrMoreLines ==
  (InTable /\ Len(lookupFile.lines) > 2) =>
    /\ pc # "exit"
    /\ BinarySearchPostcondition

\* key 1/4 in the table 1/4, 1/4, 1/4: the first probe lands on the second
\* line, whose predecessor has the same probability, and the search goes on
\* to return CanParse at the first line
C16_Witness ==
  /\ pc = "searchReturned" /\ search.op = "BinarySearchLookupTable"
  /\ Len(lookupFile.lines) = 4
  /\ \A i \in 1..3 : lookupFile.lines[i].probability = <<1, 4>>
  /\ search.key = <<1, 4>>
  /\ search.return_status = kCanParse
  /\ search.steps > 0
  /\ lookupFile.position = 0

\* the data line TableLookup is to match
MatchingLines ==
  {i \in LinesOfKey : lookupFile.lines[i].pattern_string = search.patternkey}

\* C17 as stated: when TableLookup matches a line it returns that line's
\* guess number as index and the guess number of the following table line as
\* next_index, and a bias-up lookup reports the latter
C17_NextIndexAsStated ==
  (InTable /\ pc \in {"tableReturned", "reported"}) =>
    \A i \in MatchingLines :
      /\ HasCanParse(search.lookup_data.parse_status)
      /\ search.lookup_data.index = TableGuessNumber(i)
      /\ i + 1 \in DataLines =>
           /\ search.lookup_data.next_index = TableGuessNumber(i + 1)
           /\ (pc = "reported" /\ search.bias_index = 1)
                => result.index = TableGuessNumber(i + 1)

\* the pattern identifier looked up is on no line of another probability
PatternKeyHasOneProbability ==
  \A i \in DataLines :
     lookupFile.lines[i].pattern_string = search.patternkey => i \in LinesOfKey

\* C17, what TableLookup returns on a match: index is the line's guess
\* number; next_index is what mpz_set_str makes of the next data line's
\* pattern identifier, and -1 when the total line follows
C17_NextIndexFromPattern ==
  (InTable /\ Len(lookupFile.lines) > 2 /\ PatternKeyHasOneProbability
     /\ pc \in {"tableReturned", "reported"}) =>
    /\ HasCanParse(search.lookup_data.parse_status) <=> MatchingLines # {}
    /\ HasCanParse(search.lookup_data.parse_status) =>
         \E i \in MatchingLines :
           /\ search.lookup_data.index = TableGuessNumber(i)
           /\ search.lookup_data.next_index \in
                (IF i + 1 \in DataLines
                 THEN mpz_set_str(-1, lookupFile.lines[i + 1].pattern_string)
                 ELSE {-1})
    /\ (pc = "reported" /\ search.bias_index = 1
          /\ HasCanParse(search.lookup_data.parse_status))
         => result.index = search.lookup_data.next_index

\* "a" at probability 1/2 on the first of three lines; the second line holds
\* guess number 13 and the pattern identifier "22": next_index is 22, and
\* the bias-up lookup reports 22
C17_Witness ==
  /\ pc = "reported" /\ search.bias_index = 1
  /\ search.key = <<1, 2>> /\ search.patternkey = <<97>>
  /\ Len(lookupFile.lines) = 4
  /\ MatchingLines = {1}
  /\ lookupFile.lines[2].guess_number = <<49, 51>>
  /\ lookupFile.lines[2].pattern_string = <<50, 50>>
  /\ search.lookup_data.index = 1
  /\ search.lookup_data.next_index = 22
  /\ result.index = 22


(***************************************************************************)
(* Nonterminal::produceRandomStringOfGroup, one iteration of its loop per   *)
(* step, for every terminal group of every nonterminal and every index the  *)
(* distribution can draw.  result holds the locals of the call.             *)
(***************************************************************************)
InitRandom ==
  /\ GenVarsUnused /\ LookupVarsUnused /\ NumberVarsUnused /\ TableVarsUnused
  /\ accurate_probabilities = Unused
  /\ CollectionVarsUnused /\ RandomVarsUnused
  /\ yielded = Unused /\ more = Unused
  /\ \E representation \in Representations :
     \E group_index \in 0..(countTerminalGroups(getOrCreateNonterminal(representation)) - 1) :
     \E random_item \in 0..(countStringsOfGroup(getOrCreateNonterminal(representation),
                                                group_index) - 1) :
       /\ group = getOrCreateNonterminal(representation).terminal_groups_[group_index + 1]
       /\ result = [op |-> "produceRandomStringOfGroup",
                    representation |-> representation,
                    group_index |-> group_index,
                    random_item |-> random_item,
                    counter |-> 0, answer |-> <<>>, error |-> FALSE]
  /\ uiter = getStringIterator(group)
  /\ pc = "random"

\* the loop body when counter is not the index drawn
SkipRandomString ==
  /\ pc = "random"
  /\ ~Iterator_isEnd(group, uiter)
  /\ result.counter # result.random_item
  /\ result' = [result EXCEPT !.counter = @ + 1]
  /\ uiter' = Iterator_increment(group, uiter).it
  /\ UNCHANGED <<genVars, lookupVars, numberVars, tableVars, group, yielded,
                 more, accurate_probabilities, pc,
                 collectionVars, randomVars>>

\* the loop body when counter is the index drawn: break, and return answer
TakeRandomString ==
  /\ pc = "random"
  /\ ~Iterator_isEnd(group, uiter)
  /\ result.counter = result.random_item
  /\ result' = [result EXCEPT !.answer = uiter.current_string_]
  /\ pc' = "randomReturned"
  /\ UNCHANGED <<genVars, lookupVars, numberVars, tableVars, unseenVars,
                 accurate_probabilities,
                 collectionVars, randomVars>>

\* isEnd() ends the loop: the error message when counter is not the index
\* drawn, and return answer
EndOfRandomGroup ==
  /\ pc = "random"
  /\ Iterator_isEnd(group, uiter)
  /\ result' = [result EXCEPT !.error = (result.counter # result.random_item)]
  /\ pc' = "randomReturned"
  /\ UNCHANGED <<genVars, lookupVars, numberVars, tableVars, unseenVars,
                 accurate_probabilities,
                 collectionVars, randomVars>>

NextRandom ==
  \/ SkipRandomString
  \/ TakeRandomString
  \/ EndOfRandomGroup

SpecRandom == InitRandom /\ [][NextRandom]_vars

\* C20 as stated: produceRandomStringOfGroup returns the string at the index
\* drawn, in iterator order, for every index and every group
C20_RandomStringAsStated ==
  pc = "randomReturned" =>
    result.answer
      = StringsOfGroup(result.representation, result.group_index)[result.random_item + 1]

\* C20, what it returns: the string at the index drawn, except in a seen
\* group at the last index, where it returns the empty string without an
\* error message
C20_LastOfSeenGroupIsEmpty ==
  pc = "randomReturned" =>
    /\ ~result.error
    /\ result.counter = result.random_item
    /\ result.answer
         = IF /\ group.kind = "seen"
              /\ result.random_item + 1
                   = countStringsOfGroup(getOrCreateNonterminal(result.representation),
                                         result.group_index)
           THEN <<>>
           ELSE StringsOfGroup(result.representation,
                               result.group_index)[result.random_item + 1]

\* the group "b", "c" of L.txt with index 1 drawn: after "b" is passed the
\* iterator has read its last line, the loop ends and "" is returned
C20_Witness ==
  /\ pc = "randomReturned"
  /\ result.representation = <<ChL>> /\ result.group_index = 1
  /\ StringsOfGroup(<<ChL>>, 1) = <<<<98>>, <<99>>>>
  /\ result.random_item = 1 /\ result.counter = 1
  /\ uiter.current_string_ = <<99>>
  /\ result.answer = <<>>

(***************************************************************************)
(* BigCount: a machine word until it overflows, then a big integer.        *)
(* The word is WordBits wide.                                               *)
(***************************************************************************)
WordBits == 3
WordModulus == 2 ^ WordBits

\* std::numeric_limits<uint64_t>::max()
numeric_limits_max == WordModulus - 1

\* mul_overflow: dest is written unless the product overflows
mul_overflow(op1, op2) ==
  IF op2 = 0 THEN [overflow |-> FALSE, dest |-> 0]
  ELSE IF op1 > numeric_limits_max \div op2 THEN [overflow |-> TRUE]
  ELSE [overflow |-> FALSE, dest |-> (op1 * op2) % WordModulus]

\* add_overflow that never reports an overflow and stores the wrapped sum
add_overflow_Wrap(op1, op2) ==
  [overflow |-> FALSE, dest |-> (op1 + op2) % WordModulus]

\* add_overflow
add_overflow(op1, op2) ==
  IF op1 > numeric_limits_max - op2 THEN [overflow |-> TRUE]
  ELSE [overflow |-> FALSE, dest |-> (op1 + op2) % WordModulus]

\* BigCount::BigCount(const uint64_t init); mpval is not initialised and is
\* never read while usemp is false
BigCount_FromNative(init) == [nativeval |-> init, usemp |-> FALSE]

\* BigCount::initmp: mpz_init sets the value to 0
BigCount_initmp(count) ==
  IF count.usemp THEN count
  ELSE [nativeval |-> count.nativeval, usemp |-> TRUE, mpval |-> 0]

\* mpz_get_ui: the least significant word of the value
mpz_get_ui(value) == value % WordModulus

\* BigCount::BigCount(const mpz_t init)
BigCount_FromMpz(init) ==
  IF init > mpz_get_ui(init)
  THEN [nativeval |-> 0, usemp |-> TRUE, mpval |-> init]
  ELSE [nativeval |-> mpz_get_ui(init), usemp |-> FALSE]

\* BigCount::mul(dest, op1, op2): dest after the call
BigCount_mul(dest, op1, op2) ==
  IF op1.usemp
  THEN [BigCount_initmp(dest) EXCEPT !.mpval = op1.mpval * op2]
  ELSE LET r == mul_overflow(op1.nativeval, op2)
       IN IF r.overflow
          THEN LET temp == [BigCount_initmp(op1) EXCEPT !.mpval = op1.nativeval]
               IN [BigCount_initmp(dest) EXCEPT !.mpval = temp.mpval * op2]
          ELSE [dest EXCEPT !.nativeval = r.dest]

\* BigCount::add(dest, op1, op2): dest after the call
BigCount_add(dest, op1, op2) ==
  IF op1.usemp
  THEN [BigCount_initmp(dest) EXCEPT !.mpval = op1.mpval + op2]
  ELSE LET r == add_overflow(op1.nativeval, op2)
       IN IF r.overflow
          THEN LET temp == [BigCount_initmp(op1) EXCEPT !.mpval = op1.nativeval]
               IN [BigCount_initmp(dest) EXCEPT !.mpval = temp.mpval + op2]
          ELSE [dest EXCEPT !.nativeval = r.dest]

\* mpz_cmp: positive, zero or negative
mpz_cmp(op1, op2) == IF op1 > op2 THEN 1 ELSE IF op1 = op2 THEN 0 ELSE -1

\* BigCount::cmp
BigCount_cmp(op1, op2) ==
  IF ~op1.usemp /\ ~op2.usemp
  THEN IF op1.nativeval > op2.nativeval THEN 1
       ELSE IF op1.nativeval = op2.nativeval THEN 0
       ELSE -1
  ELSE IF op1.usemp /\ ~op2.usemp THEN 1
  ELSE IF ~op1.usemp /\ op2.usemp THEN -1
  ELSE mpz_cmp(op1.mpval, op2.mpval)

\* BigCount::get
BigCount_get(src) == IF src.usemp THEN src.mpval ELSE src.nativeval

InitBigCount ==
  /\ GenVarsUnused /\ LookupVarsUnused /\ UnseenVarsUnused /\ NumberVarsUnused
  /\ TableVarsUnused /\ accurate_probabilities = Unused
  /\ CollectionVarsUnused /\ RandomVarsUnused
  /\ result = [op |-> "Init"]
  /\ pc = "bigcount"

\* test_add with the operands a and b: o1 is built from a and added to in
\* place, o2 is built from the big-integer sum
test_add ==
  /\ pc = "bigcount"
  /\ \E a \in 0..numeric_limits_max, b \in 0..numeric_limits_max :
       \E o1 \in {BigCount_add(BigCount_FromNative(a), BigCount_FromNative(a), b)},
          o2 \in {BigCount_FromMpz(a + b)} :
         result' = [op |-> "test_add", a |-> a, b |-> b, o1 |-> o1, o2 |-> o2,
                    cmp |-> BigCount_cmp(o1, o2)]
  /\ UNCHANGED <<genVars, lookupVars, unseenVars, pc,
                 numberVars, tableVars, accurate_probabilities,
                 collectionVars, randomVars>>

\* test_mul with the operands a and b
test_mul ==
  /\ pc = "bigcount"
  /\ \E a \in 0..numeric_limits_max, b \in 0..numeric_limits_max :
       \E o1 \in {BigCount_mul(BigCount_FromNative(a), BigCount_FromNative(a), b)},
          o2 \in {BigCount_FromMpz(a * b)} :
         result' = [op |-> "test_mul", a |-> a, b |-> b, o1 |-> o1, o2 |-> o2,
                    cmp |-> BigCount_cmp(o1, o2)]
  /\ UNCHANGED <<genVars, lookupVars, unseenVars, pc,
                 numberVars, tableVars, accurate_probabilities,
                 collectionVars, randomVars>>

NextBigCount ==
  \/ test_add
  \/ test_mul

SpecBigCount == InitBigCount /\ [][NextBigCount]_vars

\* C23: a BigCount built from the word a, after add (mul) with the word b,
\* compares equal under BigCount::cmp to the BigCount built from the
\* big-integer a + b (a * b); it holds that value; and it is in the
\* big-integer representation exactly when the value does not fit the word
C23_AddMulAgreeWithBigIntegers ==
  (pc = "bigcount" /\ result.op \in {"test_add", "test_mul"}) =>
    \E exact \in {IF result.op = "test_add" THEN result.a + result.b
                  ELSE result.a * result.b} :
      /\ result.cmp = 0
      /\ BigCount_cmp(result.o2, result.o1) = 0
      /\ BigCount_get(result.o1) = exact
      /\ BigCount_get(result.o2) = exact
      /\ result.o1.usemp <=> (exact > numeric_limits_max)

\* A sum and a product that overflow the word and are promoted: max + 1 and
\* max * max
C23_Witness ==
  /\ pc = "bigcount"
  /\ \/ /\ result.op = "test_add"
        /\ result.a = numeric_limits_max /\ result.b = 1
        /\ result.o1.usemp /\ result.o1.mpval = WordModulus
     \/ /\ result.op = "test_mul"
        /\ result.a = numeric_limits_max /\ result.b = numeric_limits_max
        /\ result.o1.usemp /\ result.o1.mpval = numeric_limits_max * numeric_limits_max
  /\ result.cmp = 0

(***************************************************************************)
(* NonterminalCollection::getOrCreateNonterminal on the static map, from   *)
(* the empty map.  A pointer is the index of the object in allocated.      *)
(***************************************************************************)
NULL == 0
MaxCalls == 4

\* The terminal files present in terminals_folder_, by terminal
\* representation
TerminalsFolders ==
  {{<<ChL>>, <<ChD>>, <<ChS>>, <<ChL, ChL>>}, {<<ChL>>, <<ChD>>}, {}}

\* What loadNonterminal can return for a representation: false when the
\* terminal file (U read as L) is not in the folder, and false as well as
\* true when it is, since open, fstat and mmap can fail for a file that exists
LoadOutcomes(representation, terminals_folder) ==
  IF [i \in 1..Len(representation) |->
        IF representation[i] = ChU THEN ChL ELSE representation[i]]
       \in terminals_folder
  THEN {TRUE, FALSE}
  ELSE {FALSE}

\* getOrCreateNonterminal that creates and stores a Nonterminal at every call
NonterminalCollection_getOrCreateNonterminal_AlwaysCreate(col, objects, representation, loaded) ==
  [collection |->
     [col EXCEPT !.nonterminal_collection_ =
        [r \in DOMAIN col.nonterminal_collection_ \cup {representation} |->
           IF r = representation THEN Len(objects) + 1
           ELSE col.nonterminal_collection_[r]]],
   allocated |-> Append(objects, [representation_ |-> representation, loaded |-> loaded]),
   ret |-> Len(objects) + 1]

\* NonterminalCollection::getOrCreateNonterminal: the collection, the
\* objects created so far and the pointer returned; loaded is what
\* loadNonterminal returns if it is called
NonterminalCollection_getOrCreateNonterminal(col, objects, representation, loaded) ==
  IF representation \notin DOMAIN col.nonterminal_collection_
  THEN LET newnonterminal == Len(objects) + 1
           created == Append(objects, [representation_ |-> representation,
                                       loaded |-> loaded])
       IN IF ~loaded
          THEN [collection |-> col, allocated |-> created, ret |-> NULL]
          ELSE [collection |->
                  [col EXCEPT !.nonterminal_collection_ =
                     [r \in DOMAIN col.nonterminal_collection_ \cup {representation} |->
                        IF r = representation THEN newnonterminal
                        ELSE col.nonterminal_collection_[r]]],
                allocated |-> created,
                ret |-> newnonterminal]
  ELSE [collection |-> col, allocated |-> objects,
        ret |-> col.nonterminal_collection_[representation]]

InitCollection ==
  /\ GenVarsUnused /\ LookupVarsUnused /\ UnseenVarsUnused /\ NumberVarsUnused
  /\ TableVarsUnused /\ accurate_probabilities = Unused /\ RandomVarsUnused
  /\ \E terminals_folder \in TerminalsFolders :
       collection = [nonterminal_collection_ |-> <<>>,
                     terminals_folder_ |-> terminals_folder]
  /\ allocated = <<>>
  /\ result = [op |-> "Init", calls |-> <<>>]
  /\ pc = "collection"

\* One call of getOrCreateNonterminal; result.calls keeps, for every call so
\* far, the representation asked for, the pointer returned and the map
\* before the call
GetOrCreateNonterminal ==
  /\ pc = "collection"
  /\ Len(result.calls) < MaxCalls
  /\ \E representation \in Representations :
     \E loaded \in LoadOutcomes(representation, collection.terminals_folder_) :
     \E r \in {NonterminalCollection_getOrCreateNonterminal(
                 collection, allocated, representation, loaded)} :
       /\ collection' = r.collection
       /\ allocated' = r.allocated
       /\ result' = [op |-> "getOrCreateNonterminal",
                     calls |-> Append(result.calls,
                                 [representation |-> representation,
                                  ret |-> r.ret,
                                  before |-> collection.nonterminal_collection_])]
  /\ UNCHANGED <<genVars, lookupVars, unseenVars, pc,
                 numberVars, tableVars, accurate_probabilities, randomVars>>

NextCollection == GetOrCreateNonterminal

SpecCollection == InitCollection /\ [][NextCollection]_vars

\* C24: the calls that return a Nonterminal for one representation all
\* return the same object, an object of that representation that was
\* loaded; at most one object per representation has been loaded
\* successfully; a call returns NULL exactly when its load failed, and then
\* the map after the call is the map before it; no object whose load failed
\* is in the map
C24_OneNonterminalPerRepresentation ==
  (pc = "collection" /\ result.op = "getOrCreateNonterminal") =>
    \E calls \in {result.calls}, map \in {collection.nonterminal_collection_} :
      /\ \A i, j \in 1..Len(calls) :
           (/\ calls[i].representation = calls[j].representation
            /\ calls[i].ret # NULL /\ calls[j].ret # NULL)
             => calls[i].ret = calls[j].ret
      /\ \A i \in 1..Len(calls) :
           calls[i].ret # NULL =>
             /\ allocated[calls[i].ret].representation_ = calls[i].representation
             /\ allocated[calls[i].ret].loaded
             /\ calls[i].ret = map[calls[i].representation]
      /\ \A representation \in Representations :
           Cardinality({k \in 1..Len(allocated) :
                          /\ allocated[k].representation_ = representation
                          /\ allocated[k].loaded}) <= 1
      /\ \A i \in 1..Len(calls) :
           calls[i].ret = NULL =>
             /\ calls[i].representation \notin DOMAIN calls[i].before
             /\ (IF i < Len(calls) THEN calls[i + 1].before ELSE map) = calls[i].before
      /\ \A representation \in DOMAIN map : allocated[map[representation]].loaded

\* L is created, D fails to load, L is asked for again and D once more: the
\* two calls for L return the first object, the calls for D return NULL
\* and the map holds L only
C24_Witness ==
  /\ pc = "collection" /\ Len(result.calls) = 4
  /\ result.calls[1].representation = <<ChL>> /\ result.calls[1].ret = 1
  /\ result.calls[2].representation = <<ChD>> /\ result.calls[2].ret = NULL
  /\ result.calls[3].representation = <<ChL>> /\ result.calls[3].ret = 1
  /\ result.calls[4].representation = <<ChD>> /\ result.calls[4].ret = NULL
  /\ DOMAIN collection.nonterminal_collection_ = {<<ChL>>}
  /\ Len(allocated) = 3

(***************************************************************************)
(* Termination of the enumeration.  PCFG::generatePatterns is sequential   *)
(* code: a step that can be taken is taken.  For the steps outside the     *)
(* loop body this is weak fairness; for the loop body it is weak fairness   *)
(* written out, with the loop test (pc = "patterns" and patterns_left, under*)
(* which one of the three branches of the body is always taken) in the     *)
(* place of ENABLED.                                                        *)
(***************************************************************************)
\* What the loop of Structure::generatePatterns runs on: the loop flag and,
\* inside the loop, the digits of the pattern counter
PatternLoopState ==
  <<pc, patterns_left, structure_index,
    IF pc = "patterns" THEN pattern_manager.pattern_counter_.digit ELSE <<>>>>

\* One iteration of the loop of Structure::generatePatterns
PatternLoopIteration == SkipPatternsBelowCutoff \/ OutputPattern \/ PassPermutation

SpecGenFair ==
  /\ SpecGen
  /\ WF_PatternLoopState(BeginStructurePatterns)
  /\ WF_PatternLoopState(EndStructurePatterns)
  /\ WF_PatternLoopState(ReturnFromGeneratePatterns)
  /\ \/ []<>(~(pc = "patterns" /\ patterns_left))
     \/ []<><<PatternLoopIteration>>_PatternLoopState

\* The mixed-radix value of the pattern counter of a manager
ValueOfPatternCounter(pm) ==
  ValueOfCounter(pm.pattern_counter_.base, pm.pattern_counter_.digit)

MaxDescriptorLines == 3

\* The seen part of a terminal file: none, one group, two groups, one group
\* of two terminals
SeenParts ==
  {<<>>,
   <<Line(<<97>>, <<1, 4>>, <<>>)>>,
   <<Line(<<97>>, <<1, 4>>, <<>>), Line(<<98>>, <<1, 8>>, <<>>)>>,
   <<Line(<<97>>, <<1, 8>>, <<>>), Line(<<98>>, <<1, 8>>, <<>>)>>}

\* A descriptor line: no terminal, a probability, and the generator mask in
\* the source_ids field
DescriptorLines ==
  {Line(<<>>, p, mask) : p \in {<<1, 32>>, <<1, 64>>}, mask \in {<<ChL>>, <<ChD>>}}

\* Terminal files: a seen part, the blank line, 1..MaxDescriptorLines
\* descriptor lines
DescriptorFiles ==
  {seen \o <<BlankLine>> \o descriptors :
     seen \in SeenParts,
     descriptors \in UNION {[1..n -> DescriptorLines] : n \in 1..MaxDescriptorLines}}

InitLoad ==
  /\ GenVarsUnused /\ LookupVarsUnused /\ UnseenVarsUnused /\ NumberVarsUnused
  /\ TableVarsUnused /\ accurate_probabilities = Unused
  /\ CollectionVarsUnused /\ RandomVarsUnused
  /\ \E terminal_data \in DescriptorFiles :
       result = [op |-> "Init", terminal_data |-> terminal_data]
  /\ pc = "load"

\* loadNonterminal of the representation L on the file
LoadNonterminal ==
  /\ pc = "load" /\ result.op = "Init"
  /\ \E nonterminal \in {loadNonterminal(<<ChL>>, result.terminal_data)} :
       result' = [op |-> "loadNonterminal",
                  terminal_data |-> result.terminal_data,
                  nonterminal |-> nonterminal]
  /\ pc' = "loaded"
  /\ UNCHANGED <<genVars, lookupVars, unseenVars,
                 numberVars, tableVars, accurate_probabilities,
                 collectionVars, randomVars>>

NextLoad == LoadNonterminal

SpecLoad == InitLoad /\ [][NextLoad]_vars

\* The 0-based positions of the descriptor lines of a file, in order
DescriptorPositions(terminal_data) ==
  LET blank == CHOOSE k \in 1..Len(terminal_data) : terminal_data[k].blank
  IN [i \in 1..(Len(terminal_data) - blank) |-> blank + i - 1]

\* The unseen groups created, in order
UnseenGroupsOf(nonterminal) ==
  SelectSeq(nonterminal.terminal_groups_, LAMBDA g : g.kind = "unseen")

\* C22 as stated: one unseen group per descriptor line, in order, each with
\* its own line's source_ids as generator mask and its probability, and the
\* number of groups created is the count of CountTerminalGroupsInText
C22_OneUnseenGroupPerDescriptorLine ==
  pc = "loaded" =>
    \E lines \in {DescriptorPositions(result.terminal_data)},
       groups \in {UnseenGroupsOf(result.nonterminal)} :
      /\ Len(groups) = Len(lines)
      /\ \A i \in 1..Len(lines) :
           /\ i <= Len(groups)
           /\ groups[i].generator_mask = result.terminal_data[lines[i] + 1].source_ids
      /\ Len(result.nonterminal.terminal_groups_)
           = CountTerminalGroupsInText(result.terminal_data)

\* What the code does: one unseen group per run of consecutive descriptor
\* lines of one probability, with the generator mask of the last line of
\* the run; the masks of the other lines of the run are dropped; the number
\* of groups created is the count of CountTerminalGroupsInText
C22_OneUnseenGroupPerProbabilityRun ==
  pc = "loaded" =>
    \E data \in {result.terminal_data} :
    \E lines \in {DescriptorPositions(data)},
       groups \in {UnseenGroupsOf(result.nonterminal)} :
    \E ends \in {SelectSeq(lines, LAMBDA k : IsEndOfTerminalGroup(data, k))} :
      /\ Len(groups) = Len(ends)
      /\ \A i \in 1..Len(ends) :
           /\ groups[i].generator_mask = data[ends[i] + 1].source_ids
           /\ groups[i].total_probability_mass_ = data[ends[i] + 1].probability
      /\ \A i \in 1..Len(lines) :
           IsEndOfTerminalGroup(data, lines[i])
             <=> \/ i = Len(lines)
                 \/ ~PEq(data[lines[i] + 1].probability, data[lines[i] + 2].probability)
      /\ Len(result.nonterminal.terminal_groups_) = CountTerminalGroupsInText(data)
      /\ result.nonterminal.terminal_groups_size_ = Len(result.nonterminal.terminal_groups_)

\* Two descriptor lines of probability 1/32, masks L then D, after one seen
\* terminal: one unseen group, with the mask D
C22_Witness ==
  /\ pc = "loaded"
  /\ result.terminal_data
       = <<Line(<<97>>, <<1, 4>>, <<>>), BlankLine,
           Line(<<>>, <<1, 32>>, <<ChL>>), Line(<<>>, <<1, 32>>, <<ChD>>)>>
  /\ Len(UnseenGroupsOf(result.nonterminal)) = 1
  /\ UnseenGroupsOf(result.nonterminal)[1].generator_mask = <<ChD>>
  /\ result.nonterminal.terminal_groups_size_ = 2


(***************************************************************************)
(* PCFG::generateRandomStrings (pcfg.cpp), one iteration of its loop over   *)
(* the structures per step.  The random engine is a value: its state and    *)
(* the number of draws made since it was seeded.  result holds the locals   *)
(* of the call, the assigned counts handed to the structures and, for every *)
(* draw, the function that made it and the engine it was made from.         *)
(***************************************************************************)
LOGGING_FREQUENCY == 100
MaxNumber == 3
EngineModulus == 8

\* std::mt19937 seeded, and after one draw.  The engine is deterministic:
\* its next state and the value drawn are functions of its state
mt19937(seed) == [state |-> seed % EngineModulus, drawn |-> 0]
mt19937_next(engine) ==
  [state |-> (5 * engine.state + 3) % EngineModulus, drawn |-> engine.drawn + 1]

\* distribution(generator) of a uniform_real_distribution(0.0, 1.0) and of a
\* uniform_int_distribution(0, limit): the value drawn from the engine
uniform_real_distribution(engine) ==
  Reduced(mt19937_next(engine).state, EngineModulus)
uniform_int_distribution(limit, engine) ==
  mt19937_next(engine).state % (limit + 1)

\* Nonterminal::produceRandomTerminalGroup: the loop over the groups
RECURSIVE produceRandomTerminalGroupLoop(_, _, _)
produceRandomTerminalGroupLoop(nt, prob, i) ==
  IF ~(i < nt.terminal_groups_size_) THEN 0
  ELSE LET prob_in_group == PMul(getProbabilityOfGroup(nt, i),
                                 <<countStringsOfGroup(nt, i), 1>>)
           left == PAdd(prob, <<-prob_in_group[1], prob_in_group[2]>>)
       IN IF PLess(left, Zero) THEN i
          ELSE produceRandomTerminalGroupLoop(nt, left, i + 1)

\* The generator parameter is a std::mt19937 taken by value: the draw is
\* made from the callee's copy and the caller's engine stays as it was
produceRandomTerminalGroup(nt, engine) ==
  produceRandomTerminalGroupLoop(nt, uniform_real_distribution(engine), 0)

\* Nonterminal::produceRandomStringOfGroup: the loop over the iterator
RECURSIVE produceRandomStringOfGroupLoop(_, _, _, _)
produceRandomStringOfGroupLoop(grp, it, counter, random_item) ==
  IF Iterator_isEnd(grp, it) THEN <<>>
  ELSE IF counter = random_item THEN it.current_string_
  ELSE produceRandomStringOfGroupLoop(grp, Iterator_increment(grp, it).it,
                                      counter + 1, random_item)

\* generator is taken by value here as well
produceRandomStringOfGroup(nt, group_index, engine) ==
  LET grp == nt.terminal_groups_[group_index + 1]
      limit == countStringsOfGroup(nt, group_index) - 1
  IN produceRandomStringOfGroupLoop(grp, getStringIterator(grp), 0,
                                    uniform_int_distribution(limit, engine))

\* Structure::generateRandomStrings, the body of the loop over i: the line
\* printed and the draws made, each with the engine it was made from.
\* generator is the structure's own copy, and every call below copies it
RandomStringOfStructure(st, engine) ==
  LET nts == [j \in 1..st.nonterminals_size_ |->
                getOrCreateNonterminal(st.nonterminals_[j])]
      terminal_group == [j \in 1..st.nonterminals_size_ |->
                           produceRandomTerminalGroup(nts[j], engine)]
  IN [line |->
        [probability |->
           PProdSeq(<<st.probability_>> \o
                    [j \in 1..st.nonterminals_size_ |->
                       getProbabilityOfGroup(nts[j], terminal_group[j])]),
         password |->
           Concat([j \in 1..st.nonterminals_size_ |->
                     produceRandomStringOfGroup(nts[j], terminal_group[j], engine)])],
      draws |->
        Concat([j \in 1..st.nonterminals_size_ |->
                  <<[by |-> "produceRandomTerminalGroup", from |-> engine],
                    [by |-> "produceRandomStringOfGroup", from |-> engine]>>])]

\* Structure::generateRandomStrings(number, generator)
Structure_generateRandomStrings(st, count, engine) ==
  [lines |-> [i \in 1..count |-> RandomStringOfStructure(st, engine).line],
   draws |-> Concat([i \in 1..count |-> RandomStringOfStructure(st, engine).draws])]

\* The first loop of PCFG::generateRandomStrings: mt_random_generator is a
\* local of the function and the distribution takes it by reference
RECURSIVE drawRandomNumbers(_, _, _, _)
drawRandomNumbers(count, engine, random_numbers, draws) ==
  IF Len(random_numbers) >= count
  THEN [random_numbers |-> random_numbers, generator |-> engine, draws |-> draws]
  ELSE drawRandomNumbers(count, mt19937_next(engine),
                         Append(random_numbers, uniform_real_distribution(engine)),
                         Append(draws, [by |-> "PCFG::generateRandomStrings",
                                        from |-> engine]))

\* The while loop that counts the draws up to cumulative_probability, with
\* < for <=
RECURSIVE assignLoop_Strict(_, _, _, _)
assignLoop_Strict(random_numbers, random_number_index, assigned, cumulative_probability) ==
  IF ~PLess(random_numbers[random_number_index + 1], cumulative_probability)
  THEN [random_number_index |-> random_number_index, assigned |-> assigned]
  ELSE IF random_number_index + 1 >= Len(random_numbers)
  THEN [random_number_index |-> random_number_index + 1, assigned |-> assigned + 1]
  ELSE assignLoop_Strict(random_numbers, random_number_index + 1, assigned + 1,
                         cumulative_probability)

\* The while loop that counts the draws up to cumulative_probability
RECURSIVE assignLoop(_, _, _, _)
assignLoop(random_numbers, random_number_index, assigned, cumulative_probability) ==
  IF ~PLeq(random_numbers[random_number_index + 1], cumulative_probability)
  THEN [random_number_index |-> random_number_index, assigned |-> assigned]
  ELSE IF random_number_index + 1 >= Len(random_numbers)
  THEN [random_number_index |-> random_number_index + 1, assigned |-> assigned + 1]
  ELSE assignLoop(random_numbers, random_number_index + 1, assigned + 1,
                  cumulative_probability)

\* A grammar of LOGGING_FREQUENCY structures, D, DD, DDD, ...: the first
\* has all the probability but 1/1024 for each of the others
LargeGrammar ==
  [k \in 1..LOGGING_FREQUENCY |->
     loadStructure([j \in 1..k |-> ChD],
                   IF k = 1 THEN <<1024 - (LOGGING_FREQUENCY - 1), 1024>>
                   ELSE <<1, 1024>>)]

\* Grammars whose structure probabilities sum to 1
DispatchGrammars ==
  {MixedGrammar,
   <<loadStructure(<<ChD>>, One)>>,
   <<loadStructure(<<ChL>>, <<1, 2>>), loadStructure(<<ChD>>, <<1, 2>>)>>,
   <<loadStructure(<<ChS>>, <<1, 8>>), loadStructure(<<ChD, 69, ChL>>, <<3, 4>>),
     loadStructure(<<ChL, ChL>>, <<1, 8>>)>>,
   LargeGrammar}

InitDispatch ==
  /\ LookupVarsUnused /\ UnseenVarsUnused /\ NumberVarsUnused /\ TableVarsUnused
  /\ accurate_probabilities = Unused /\ CollectionVarsUnused
  /\ cutoff = Unused /\ pattern_manager = Unused /\ patterns_left = Unused
  /\ iterators = Unused
  /\ pcfg \in DispatchGrammars
  /\ structure_index = 0
  /\ output = <<>>
  /\ \E rd \in 0..(EngineModulus - 1) : generator = mt19937(rd)
  /\ \E count \in 0..MaxNumber :
       result = [op |-> "generateRandomStrings", number |-> count,
                 random_numbers |-> <<>>, random_number_index |-> 0,
                 cumulative_probability |-> Zero,
                 structure_logging_freq |-> Len(pcfg) \div LOGGING_FREQUENCY,
                 assigned |-> <<>>, divisors |-> <<>>, logged |-> <<>>,
                 draws |-> <<>>, error |-> FALSE]
  /\ pc = "generateRandomStrings"

dispatchUnchanged ==
  UNCHANGED <<pcfg, cutoff, pattern_manager, patterns_left, iterators,
              lookupVars, unseenVars, numberVars, tableVars,
              accurate_probabilities, collectionVars>>

\* The n draws and the sort, up to the head of the loop over the structures
DrawRandomNumbers ==
  /\ pc = "generateRandomStrings"
  /\ \E drawn \in {drawRandomNumbers(result.number, generator, <<>>, <<>>)} :
       /\ generator' = drawn.generator
       /\ result' = [result EXCEPT
            !.random_numbers = SortSeq(drawn.random_numbers, PLess),
            !.draws = drawn.draws]
  /\ pc' = "dispatch"
  /\ UNCHANGED <<structure_index, output>>
  /\ dispatchUnchanged

\* cumulative_probability and assigned of the iteration for structure i
IterationOf(locals, st) ==
  LET cumulative == PAdd(locals.cumulative_probability, st.probability_)
      counted == assignLoop(locals.random_numbers, locals.random_number_index,
                            0, cumulative)
  IN [cumulative_probability |-> cumulative,
      random_number_index |-> counted.random_number_index,
      assigned |-> counted.assigned]

InDispatchLoop ==
  /\ pc = "dispatch"
  /\ structure_index < Len(pcfg)
  /\ result.random_number_index < result.number

\* One iteration of the loop over the structures that reaches its end.
\* i % structure_logging_freq with structure_logging_freq = 0 is undefined:
\* where the division does not trap, the test may come out either way
DispatchStructure ==
  /\ InDispatchLoop
  /\ \E it \in {IterationOf(result, pcfg[structure_index + 1])} :
     \E log \in IF result.structure_logging_freq = 0 THEN BOOLEAN
                ELSE {structure_index % result.structure_logging_freq = 0} :
     \E made \in {Structure_generateRandomStrings(pcfg[structure_index + 1],
                                                  it.assigned, generator)} :
       /\ result' = [result EXCEPT
            !.cumulative_probability = it.cumulative_probability,
            !.random_number_index = it.random_number_index,
            !.assigned = Append(@, it.assigned),
            !.divisors = Append(@, result.structure_logging_freq),
            !.logged = IF log THEN Append(@, structure_index) ELSE @,
            !.draws = @ \o made.draws]
       /\ output' = output \o made.lines
  /\ structure_index' = structure_index + 1
  /\ UNCHANGED <<generator, pc>>
  /\ dispatchUnchanged

\* The iteration when i % 0 traps: the process is killed (SIGFPE) before
\* the structure is called
DivideByZero ==
  /\ InDispatchLoop
  /\ result.structure_logging_freq = 0
  /\ \E it \in {IterationOf(result, pcfg[structure_index + 1])} :
       result' = [result EXCEPT
            !.cumulative_probability = it.cumulative_probability,
            !.random_number_index = it.random_number_index,
            !.divisors = Append(@, result.structure_logging_freq)]
  /\ pc' = "killed"
  /\ UNCHANGED <<structure_index, output, generator>>
  /\ dispatchUnchanged

\* The loop test fails: the error message when draws are left, return true
ReturnFromGenerateRandomStrings ==
  /\ pc = "dispatch"
  /\ ~(structure_index < Len(pcfg) /\ result.random_number_index < result.number)
  /\ result' = [result EXCEPT
       !.error = (result.random_number_index < result.number)]
  /\ pc' = "randomStringsReturned"
  /\ UNCHANGED <<structure_index, output, generator>>
  /\ dispatchUnchanged

NextDispatch ==
  \/ DrawRandomNumbers
  \/ DispatchStructure
  \/ DivideByZero
  \/ ReturnFromGenerateRandomStrings

SpecDispatch == InitDispatch /\ [][NextDispatch]_vars


\* The cumulative probability after the first k structures, and the number
\* of the draws in the band of structure k (k from 1): above the cumulative
\* probability before it, the first band from 0, and up to its own
RECURSIVE SumOfProbabilities(_, _)
SumOfProbabilities(first, last) ==
  IF first > last THEN Zero
  ELSE IF first = last THEN pcfg[first].probability_
  ELSE LET mid == (first + last) \div 2
       IN PAdd(SumOfProbabilities(first, mid), SumOfProbabilities(mid + 1, last))
CumulativeProbability(k) == SumOfProbabilities(1, k)
DrawsInBand(k) ==
  Cardinality({j \in 1..Len(result.random_numbers) :
                 /\ k = 1 \/ PLess(CumulativeProbability(k - 1), result.random_numbers[j])
                 /\ PLeq(result.random_numbers[j], CumulativeProbability(k))})

C28_NoTwoDrawsFromOneEngineState ==
  pc \in {"dispatch", "randomStringsReturned"} =>
    \A a, b \in 1..Len(result.draws) :
      a # b => result.draws[a].from # result.draws[b].from

\* What the code does: the n draws of PCFG::generateRandomStrings advance
\* its engine, and every draw of produceRandomTerminalGroup and of
\* produceRandomStringOfGroup is made from a copy of the engine as those n
\* draws left it; all the strings of a structure are therefore the same
C28_DrawsFromCopiesOfOneEngine ==
  pc \in {"dispatch", "randomStringsReturned"} =>
    /\ generator.drawn = result.number
    /\ \A a \in 1..Len(result.draws) :
         IF a <= result.number
         THEN /\ result.draws[a].by = "PCFG::generateRandomStrings"
              /\ result.draws[a].from.drawn = a - 1
         ELSE /\ result.draws[a].by \in {"produceRandomTerminalGroup",
                                         "produceRandomStringOfGroup"}
              /\ result.draws[a].from = generator
    /\ Len(pcfg) = 1 => \A a, b \in 1..Len(output) : output[a] = output[b]

\* Two strings for the grammar of the one structure D: the two lines are
\* the same, and the four draws for them are made from one engine
C28_Witness ==
  /\ pc = "randomStringsReturned"
  /\ Len(pcfg) = 1 /\ result.number = 2
  /\ Len(output) = 2 /\ output[1] = output[2]
  /\ Len(result.draws) = 6
  /\ \A a \in 3..6 : result.draws[a].from = generator

\* C30 as stated: the divisor is non-zero at every evaluation of
\* i % structure_logging_freq, and the process is not killed
C30_NeverDividesByZero ==
  /\ pc # "killed"
  /\ \A k \in 1..Len(result.divisors) : result.divisors[k] # 0

\* What the code does: the divisor is structures_size_ / LOGGING_FREQUENCY,
\* zero for every grammar of fewer than LOGGING_FREQUENCY structures, and
\* it is evaluated in every iteration of the loop, so in the first one
\* whenever n >= 1
C30_DividesByZeroBelowLoggingFrequency ==
  /\ \A k \in 1..Len(result.divisors) :
       /\ result.divisors[k] = Len(pcfg) \div LOGGING_FREQUENCY
       /\ result.divisors[k] = 0 <=> Len(pcfg) < LOGGING_FREQUENCY
  /\ pc = "killed" => Len(pcfg) < LOGGING_FREQUENCY /\ result.number >= 1
  /\ (pc \in {"randomStringsReturned", "killed"} /\ result.number >= 1)
       => Len(result.divisors) >= 1

\* One string asked of the grammar with the one structure D: 0 % 0 in the
\* first iteration
C30_Witness ==
  /\ pc = "killed"
  /\ Len(pcfg) = 1 /\ result.number = 1
  /\ result.divisors = <<0>>
  /\ output = <<>>

====
